---- MODULE Spec2Model ----
(***************************************************************************)
(* A model of FireFly's Reconstructor (the scheduler thread), its          *)
(* ThreadPool (the workers and the task deque) and the per-function        *)
(* RatReconst objects, as far as scheduling, locking and the prime-field   *)
(* transitions are concerned.  The finite-field algebra of a RatReconst is *)
(* abstracted to the number of probes each zi_order needs (NumEqn) and to  *)
(* the outcome of the rational-reconstruction test (a nondeterministic     *)
(* choice).  Built without MPI, without precomputed probes, without safe   *)
(* mode and without the factor scan.                                       *)
(***************************************************************************)
EXTENDS Integers, Sequences, FiniteSets, TLC

\* ------------------------------------------------------------------ bounds
\* the argument prime_counter of reconstruct(): how many prime fields to use
prime_counter == 2
\* how many different values t the random number generator can yield
MaxT == 40
\* how many times the generator yields a value it has yielded in an earlier
\* prime field or an earlier run of the scan
MaxRepeats == 1
\* the number of tasks the client of a ThreadPool submits at most
MaxJobs == 4
\* the number of probes fed to the RatReconst of one variable at most
MaxFeeds == 5
\* the values of t of these probes are 1 .. MaxUniT
MaxUniT == 2

\* ---------------------------------------------------------- configuration
\* the Reconstructors built: the number of threads, the maximal bunch size, the
\* number of probes a layer of the black box's functions needs, and whether
\* enable_shift_scan() was called
Configs == {[thr_n |-> 1, bunch_size |-> 4, deg |-> 2, scan |-> FALSE],
            [thr_n |-> 2, bunch_size |-> 1, deg |-> 1, scan |-> FALSE],
            [thr_n |-> 1, bunch_size |-> 1, deg |-> 2, scan |-> TRUE]}
\* the number n of variables of the black box
NVars == 2
\* the default argument of run_until_done, used by the shift scan
ScanPrimeCounter == 300
\* the functions of the black box (items = probes.size())
Functions == {1, 2}
\* zi_order k stands for the vector (k, ..., k); Ones is (1, ..., 1)
Ones == 1
ZiOrders == {1, 2}
TValues == 1..MaxT

VARIABLES
  thr_n, bunch_size, deg,                     \* constructor arguments, the black box
  scan, first, counter, found_shift,          \* the shift scan and the locals of scan_for_shift
  current_shift,
  tasks, threads_idle, wk,                    \* ThreadPool: deque, idle flags, workers
  spc,                                        \* where the scheduler thread is
  prime_it, done, new_prime,
  items, items_done, items_new_prime,
  feed_jobs, interpolate_jobs,
  probes_queued, ind, balance_of_ones, probes_for_next_prime,
  started_probes, chosen_t, index_map,
  requested_probes, computed_probes,
  status, rec,                                \* reconst: (status, RatReconst) per function
  ff_prime, bb_prime, anchor_prime,           \* FFInt::p, the black box's field, the anchor points' field
  prime_changed_calls, set_new_prime_calls,   \* history: calls of prime_changed / set_new_prime
  used_t, issued_t, repeats, reused_now,  \* history of the values t handed out
  pool,                                       \* a ThreadPool with a client of its own
  aborted,                                    \* std::atomic<bool> aborted
  acc,                                        \* the accesses of the last step to the probe bookkeeping
  uni,                                        \* a RatReconst of one variable and its field
  resume,                                     \* save_states, resume_from_state, load_anchor_points, ff_save
  lk,                                         \* the mutexes' owners and each thread's place in its function
  multi                                       \* a RatReconst of several variables, its shift and its probes

poolVars == <<tasks, threads_idle, wk>>
confVars == <<thr_n, bunch_size, deg>>
scanVars == <<scan, first, counter, found_shift, current_shift>>
ctrlVars == <<prime_it, done, new_prime>>
itemVars == <<items, items_done, items_new_prime>>
jobVars == <<feed_jobs, interpolate_jobs>>
probeVars == <<probes_queued, ind, chosen_t, index_map, requested_probes,
               used_t, issued_t, repeats, reused_now>>
startVars == <<balance_of_ones, probes_for_next_prime, started_probes>>
fieldVars == <<ff_prime, bb_prime, anchor_prime, prime_changed_calls, set_new_prime_calls>>
vars == <<thr_n, bunch_size, deg, scan, first, counter, found_shift, current_shift, tasks, threads_idle, wk, spc, prime_it, done, new_prime,
          items, items_done, items_new_prime, feed_jobs, interpolate_jobs,
          probes_queued, ind, balance_of_ones, probes_for_next_prime,
          started_probes, chosen_t, index_map, requested_probes, computed_probes,
          status, rec, ff_prime, bb_prime, anchor_prime,
          prime_changed_calls, set_new_prime_calls,
          used_t, issued_t, repeats, reused_now, pool, aborted, acc, uni, resume, lk, multi>>
\* what the Reconstructor's run leaves alone
extVars == <<pool, aborted, uni, resume, lk, multi>>
\* the Reconstructor's state besides the deque and the threads of its pool
runVars == <<confVars, scanVars, spc, ctrlVars, itemVars, jobVars, probeVars, startVars,
             computed_probes, status, rec, fieldVars, acc, resume>>

\* ----------------------------------------------------------------- helpers
Range(s) == {s[i] : i \in DOMAIN s}
Min(S) == CHOOSE x \in S : \A y \in S : x <= y
MinSet(S) == IF S = {} THEN {} ELSE {Min(S)}
Max2(a, b) == IF a >= b THEN a ELSE b
Min2(a, b) == IF a <= b THEN a ELSE b
Reverse(s) == [i \in 1..Len(s) |-> s[Len(s) + 1 - i]]
EmptyMap == [x \in {} |-> 0]
Threads == DOMAIN threads_idle

\* std::unordered_map::emplace: inserts only when the key is absent
Emplace(m, k, v) == IF k \in DOMAIN m THEN m ELSE m @@ (k :> v)
\* m[k] += v of std::unordered_map: a missing key is value-initialised to 0
AddTo(m, k, v) == IF k \in DOMAIN m THEN [m EXCEPT ![k] = @ + v] ELSE m @@ (k :> v)

\* ------------------------------------------------------------ RatReconst
\* The shape of the black-box functions: how many probes function f needs at
\* zi_order z before that layer is solved, and its last zi_order.
NumEqn(f, z) == IF z = Ones THEN (IF f = 1 THEN deg ELSE 1) ELSE deg
LastOrder(f) == IF f = 1 THEN 1 ELSE 2

NewRatReconst ==
  [prime_number |-> 0, done |-> FALSE, new_prime |-> FALSE, is_interpolating |-> FALSE,
   queue |-> <<>>, curr_zi_order |-> Ones, got |-> 0,
   saved_ti |-> [z \in ZiOrders |-> 0], result |-> 0, scan |-> FALSE]

\* RatReconst::scan_for_sparsest_shift, is_shift_working (which lowers done
\* again for the next candidate) and accept_shift (which ends the scan)
scan_for_sparsest_shift(r) == [r EXCEPT !.scan = TRUE]
is_shift_working(r) == [r EXCEPT !.done = FALSE]
accept_shift(r) == [r EXCEPT !.done = FALSE, !.scan = FALSE]

\* the probes of one call of feed as they lie in the queue: the zi_order of
\* each, and the prime field they were fed for
Fed(zis, fed_prime) == [j \in DOMAIN zis |-> [zi |-> zis[j], prime |-> fed_prime]]
\* no probe in hand
NoFood == [zi |-> 0, prime |-> 0]

\* RatReconst::feed without its comparison of the primes
feed_any_prime(r, zis, fed_prime) == [r EXCEPT !.queue = @ \o Fed(zis, fed_prime)]

\* RatReconst::feed: under mutex_status, the probes are appended to the queue
\* when they were computed in the object's prime field, and dropped otherwise
feed(r, zis, fed_prime) ==
  IF fed_prime = r.prime_number THEN [r EXCEPT !.queue = @ \o Fed(zis, fed_prime)] ELSE r

\* LayerSolved with the prime counter raised by two at the end of a prime field
LayerSolved_skipping(r, f) ==
  IF r.scan THEN [r EXCEPT !.done = TRUE, !.got = 0]
  ELSE IF r.curr_zi_order = LastOrder(f)
  THEN [r EXCEPT !.prime_number = @ + 2, !.queue = <<>>,
                 !.saved_ti = [z \in ZiOrders |-> 0],
                 !.curr_zi_order = Ones, !.got = 0, !.new_prime = TRUE]
  ELSE [r EXCEPT !.curr_zi_order = @ + 1, !.got = 0]

\* the layer of the current zi_order is complete: either the prime field is
\* finished (prime_number++, queue.clear(), saved_ti.clear(), new_prime) or
\* the zi_order is increased by one; in the shift scan the function is through
\* with the candidate shift after the first layer and flags done
LayerSolved(r, f) ==
  IF r.scan THEN [r EXCEPT !.done = TRUE, !.got = 0]
  ELSE IF r.curr_zi_order = LastOrder(f)
  THEN [r EXCEPT !.prime_number = @ + 1, !.queue = <<>>,
                 !.saved_ti = [z \in ZiOrders |-> 0],
                 !.curr_zi_order = Ones, !.got = 0, !.new_prime = TRUE]
  ELSE [r EXCEPT !.curr_zi_order = @ + 1, !.got = 0]

\* interpolate(new_ti, num, feed_zi_ord) that drops a probe of another zi_order
interpolate_food_dropping(r, f, zi, guess) ==
  IF r.done \/ zi # r.curr_zi_order THEN r
  ELSE IF r.new_prime /\ guess
       THEN [r EXCEPT !.done = TRUE, !.new_prime = FALSE, !.got = 0,
                      !.result = r.prime_number]
  ELSE LET r1 == [r EXCEPT !.new_prime = FALSE, !.got = @ + 1]
       IN IF r1.got >= NumEqn(f, r1.curr_zi_order) THEN LayerSolved(r1, f) ELSE r1

\* interpolate(new_ti, num, feed_zi_ord) without its test of done
interpolate_food_unguarded(r, f, zi, guess) ==
  IF zi # r.curr_zi_order THEN [r EXCEPT !.saved_ti[zi] = @ + 1]
  ELSE IF r.new_prime /\ guess
       THEN [r EXCEPT !.done = TRUE, !.new_prime = FALSE, !.got = 0,
                      !.result = r.prime_number]
  ELSE LET r1 == [r EXCEPT !.new_prime = FALSE, !.got = @ + 1]
       IN IF r1.got >= NumEqn(f, r1.curr_zi_order) THEN LayerSolved(r1, f) ELSE r1

\* RatReconst::interpolate(new_ti, num, feed_zi_ord): one probe. guess is the
\* outcome of rec_rat_coef() && test_guess(num) in a new prime field.
interpolate_food(r, f, zi, guess) ==
  IF r.done THEN r
  ELSE IF zi # r.curr_zi_order THEN [r EXCEPT !.saved_ti[zi] = @ + 1]
  ELSE IF r.new_prime /\ guess
       THEN [r EXCEPT !.done = TRUE, !.new_prime = FALSE, !.got = 0,
                      !.result = r.prime_number]
  ELSE LET r1 == [r EXCEPT !.new_prime = FALSE, !.got = @ + 1]
       IN IF r1.got >= NumEqn(f, r1.curr_zi_order) THEN LayerSolved(r1, f) ELSE r1

\* the loop of RatReconst::interpolate() over saved_ti[curr_zi_order]
RECURSIVE use_saved_ti(_, _)
use_saved_ti(r, f) ==
  IF r.done \/ r.saved_ti[r.curr_zi_order] = 0 THEN r
  ELSE use_saved_ti(
         interpolate_food([r EXCEPT !.saved_ti[r.curr_zi_order] = @ - 1],
                          f, r.curr_zi_order, FALSE), f)

\* what interpolate() does with one probe taken from the queue
interpolate_one(r, f, zi, guess) == use_saved_ti(interpolate_food(r, f, zi, guess), f)

\* the outcomes test_guess can have for this probe
Guesses(r, zi) ==
  IF ~r.done /\ r.new_prime /\ zi = r.curr_zi_order THEN BOOLEAN ELSE {FALSE}

\* RatReconst::interpolate() run to its end by one thread with nobody else
\* feeding (start_first_runs, on the scheduler thread, in the first prime)
RECURSIVE interpolate_all(_, _)
interpolate_all(r, f) ==
  IF r.queue = <<>> THEN r
  ELSE interpolate_all(
         interpolate_one([r EXCEPT !.queue = Tail(@)], f, Head(r.queue).zi, FALSE), f)

get_num_eqn(r, f) == NumEqn(f, r.curr_zi_order)
\* the probes still missing at the current zi_order, and the system size
get_zi_orders(r, f) ==
  [orders |-> <<[zi_order |-> r.curr_zi_order,
                 count |-> NumEqn(f, r.curr_zi_order) - r.got]>>,
   system_size |-> NumEqn(f, r.curr_zi_order)]
\* the number of probes required per zi_order in a prime field after the first
get_needed_feed_vec(r, f) ==
  <<[zi_order |-> r.curr_zi_order, count |-> NumEqn(f, r.curr_zi_order)]>>

\* ------------------------------------------------- mutexes and accesses
\* An access of a step to one of the variables of the probe bookkeeping: the
\* variable, the mutexes held meanwhile, and the thread.
Access(v, held, by) == [v |-> v, held |-> held, by |-> by]

\* interpolate_job reading and writing started_probes with no lock
interpolate_job_unlocked == {}

\* std::unique_lock<std::mutex> lock(job_control) of interpolate_job
interpolate_job_lock == {"job_control"}

\* queue_probes: chosen_t under chosen_mutex; requested_probes, index_map, ind
\* and probes_queued under mutex_probe_queue
queue_probes_acc(by) ==
  {Access("chosen_t", {"chosen_mutex"}, by)}
    \cup {Access(v, {"mutex_probe_queue"}, by) :
            v \in {"requested_probes", "index_map", "ind", "probes_queued"}}

\* get_probe: computed_probes under future_control, then probes_queued under
\* mutex_probe_queue
get_probe_acc ==
  {Access("computed_probes", {"future_control"}, "scheduler"),
   Access("probes_queued", {"mutex_probe_queue"}, "scheduler")}

\* reset_new_prime: every variable is cleared with no mutex held
reset_new_prime_acc ==
  {Access(v, {}, "scheduler") :
     v \in {"requested_probes", "computed_probes", "index_map", "chosen_t",
            "started_probes", "probes_queued", "ind"}}

\* the accesses of each step
StepAcc ==
  [StartFirstRuns |-> queue_probes_acc("scheduler")
                        \cup {Access("started_probes", {}, "scheduler")},
   FirstGetProbe |-> get_probe_acc \cup queue_probes_acc("scheduler")
                       \cup {Access("index_map", {"mutex_probe_queue"}, "scheduler"),
                             Access("started_probes", {}, "scheduler")},
   NextPrime |-> reset_new_prime_acc,
   ExitReset |-> reset_new_prime_acc,
   QueueNext |-> queue_probes_acc("scheduler")
                   \cup {Access("started_probes", {}, "scheduler")},
   GetProbe |-> get_probe_acc,
   CheckStatus |-> {Access("probes_queued", {"mutex_probe_queue"}, "scheduler")},
   WaitFeed |-> {Access("probes_queued", {"mutex_probe_queue"}, "scheduler")},
   ScanLoop |-> queue_probes_acc("scheduler")
                  \cup {Access("started_probes", {"job_control"}, "scheduler")},
   GetJob |-> {Access("requested_probes", {"mutex_probe_queue"}, "worker")},
   ComputeProbe |-> {Access("computed_probes", {"future_control"}, "worker")},
   FeedJob |-> {Access("index_map", {"mutex_probe_queue"}, "worker")},
   InterpolateReact |-> queue_probes_acc("worker")
                          \cup {Access("started_probes", interpolate_job_lock, "worker")},
   None |-> {}]

\* ------------------------------------------------------------- ThreadPool
IdleWk == [pc |-> "idle", f |-> 0, indices |-> <<>>, zis |-> <<>>, idx |-> 0,
           counter |-> 0, food |-> NoFood, tag |-> 0,
           res |-> [interpolated |-> FALSE, done |-> FALSE, prime |-> 0]]

Task(kind, f, indices) == [kind |-> kind, f |-> f, indices |-> indices, prime |-> prime_it]
run_task(ts, t) == Append(ts, t)
run_priority_task(ts, t) == <<t>> \o ts

\* all_threads_idle() that is content with one idle thread
all_threads_idle_any == \E w \in Threads : threads_idle[w]

\* all_threads_idle() that does not look at the flags
all_threads_idle_unchecked == TRUE

all_threads_idle == \A w \in Threads : threads_idle[w]

\* a worker that pops the front of the deque and does not run it
WorkerTake_dropping(w) ==
  /\ wk[w].pc = "idle"
  /\ tasks # <<>>
  /\ tasks' = Tail(tasks)
  /\ acc' = {}
  /\ UNCHANGED <<extVars, confVars, scanVars, threads_idle, wk, spc, ctrlVars, itemVars, jobVars,
                 probeVars, startVars, computed_probes, status, rec, fieldVars>>

\* the worker's loop: wait until the deque is not empty, pop its front, run it
WorkerTake(w) ==
  /\ wk[w].pc = "idle"
  /\ tasks # <<>>
  /\ tasks' = Tail(tasks)
  /\ threads_idle' = [threads_idle EXCEPT ![w] = FALSE]
  /\ wk' = [wk EXCEPT ![w] = [IdleWk EXCEPT !.pc = Head(tasks).kind, !.f = Head(tasks).f,
                                            !.indices = Head(tasks).indices,
                                            !.tag = Head(tasks).prime]]
  /\ acc' = StepAcc.None
  /\ UNCHANGED <<extVars, confVars, scanVars, spc, ctrlVars, itemVars, jobVars, probeVars, startVars,
                 computed_probes, status, rec, fieldVars>>

\* the task returned: back to the head of the worker's loop
TaskReturns(w) ==
  /\ wk' = [wk EXCEPT ![w] = IdleWk]
  /\ threads_idle' = [threads_idle EXCEPT ![w] = TRUE]


\* ------------------------------------------------------------ queue_probes
\* uint32_t a | b and a >> k
RECURSIVE BitOr(_, _)
BitOr(a, b) ==
  IF a = 0 THEN b
  ELSE IF b = 0 THEN a
  ELSE 2 * BitOr(a \div 2, b \div 2) + (IF a % 2 = 1 \/ b % 2 = 1 THEN 1 ELSE 0)
ShiftRight(a, k) == a \div (2 ^ k)

\* the floor power of two of compute_bunch_size: every bit below the highest
\* one is set, then (tmp + 1) >> 1
FloorPow2(x) ==
  LET t1 == BitOr(x, ShiftRight(x, 1))
      t2 == BitOr(t1, ShiftRight(t1, 2))
      t3 == BitOr(t2, ShiftRight(t2, 4))
      t4 == BitOr(t3, ShiftRight(t3, 8))
      t5 == BitOr(t4, ShiftRight(t4, 16))
  IN ShiftRight(t5 + 1, 1)

\* compute_bunch_size that takes as many probes as are allowed and there
compute_bunch_size_greedy(queue_length, threads, max_bunch_size) ==
  Min2(max_bunch_size, queue_length)

\* compute_bunch_size that never doubles the floor power of two
compute_bunch_size_floor(queue_length, threads, max_bunch_size) ==
  IF max_bunch_size = 1 \/ queue_length \div threads = 0 THEN 1
  ELSE Min2(max_bunch_size, FloorPow2(queue_length \div threads))

\* compute_bunch_size(queue_length, thr_n, max_bunch_size) of utils.cpp
compute_bunch_size(queue_length, threads, max_bunch_size) ==
  IF max_bunch_size = 1 THEN 1
  ELSE LET tmp == queue_length \div threads
       IN IF tmp # 0
          THEN LET fl == FloorPow2(tmp)
                   up == IF 2 * fl < queue_length /\ fl * threads # queue_length
                         THEN 2 * fl ELSE fl
               IN Min2(max_bunch_size, up)
          ELSE 1

\* how many values of ts had been handed out before (they are in S or occur
\* earlier in ts)
RECURSIVE Repeated(_, _)
Repeated(ts, S) ==
  IF ts = <<>> THEN 0
  ELSE Repeated(Tail(ts), S \cup {Head(ts)}) + (IF Head(ts) \in S THEN 1 ELSE 0)

\* tmp_rec.get_rand_64(): the candidates the generator can yield next.  Values
\* never handed out are interchangeable, and so are the values handed out in an
\* earlier prime field, and so are those in chosen_t: one of each kind.
get_rand_64(chosen, used, old) ==
  MinSet(TValues \ used) \cup MinSet(chosen)
    \cup (IF old < MaxRepeats THEN MinSet(used \ chosen) ELSE {})

\* the loop of queue_probes without the check against chosen_t
Accepted_unchecked(chosen, candidates) == candidates

\* the check against chosen_t[zi_order]: a candidate found there is rejected
\* (--j; continue) and the next one is drawn
Accepted(chosen, candidates) == {t \in candidates : t \notin chosen}

\* the values t that k rounds of the loop of queue_probes can end up with
RECURSIVE AcceptedDraws(_, _, _, _)
AcceptedDraws(k, chosen, used, old) ==
  IF k = 0 THEN {<<>>}
  ELSE UNION {{<<t>> \o s :
                 s \in AcceptedDraws(k - 1, chosen \cup {t}, used \cup {t},
                                     old + Repeated(<<t>>, used))} :
              t \in Accepted(chosen, get_rand_64(chosen, used, old))}

Draws(zi_order, k) == AcceptedDraws(k, chosen_t[zi_order], used_t[zi_order], repeats)

\* queue_probes starting one get_job less than it has queued probes
JobsFor_short(to_start) == to_start - 1

\* how many get_job tasks queue_probes starts for to_start probes
JobsFor(to_start) == to_start

\* queue_probes that gives every probe the index of the one before
next_ind_stuck(i, k) == i

\* queue_probes that advances ind once for all its probes
next_ind_once(i, k) == i + 1

\* ++ind of queue_probes, once for each of its k probes
next_ind(i, k) == i + k

\* queue_probes that puts the probes of (1,...,1) to the front in every field
ones_to_front_always(zi_order) == zi_order = Ones

\* bool ones of queue_probes: the probes of (1,...,1) go to the front in the
\* first field (safe_mode and factor_scan are off)
ones_to_front(zi_order) == prime_it = 0 /\ zi_order = Ones

\* queue_probes(zi_order, to_start) with ts the to_start values t it settles on;
\* im and pq are index_map and probes_queued as the caller has left them
queue_probes(zi_order, ts, im, pq) ==
  LET ones == ones_to_front(zi_order)
      k == Len(ts)
      new == [j \in 1..k |-> [ind |-> ind + j - 1, prime |-> prime_it, anchor |-> anchor_prime]]
  IN /\ chosen_t' = [chosen_t EXCEPT ![zi_order] = @ \cup Range(ts)]
     /\ requested_probes' = IF ones THEN Reverse(new) \o requested_probes
                            ELSE requested_probes \o new
     /\ index_map' = im @@ [i \in ind..(ind + k - 1) |->
                              [t |-> ts[i - ind + 1], zi_order |-> zi_order]]
     /\ ind' = next_ind(ind, k)
     /\ probes_queued' = pq + k
     /\ tasks' = tasks \o [j \in 1..JobsFor(k) |-> Task("get_job", 0, <<>>)]
     /\ used_t' = [used_t EXCEPT ![zi_order] = @ \cup Range(ts)]
     /\ issued_t' = [issued_t EXCEPT ![zi_order] = @ \cup Range(ts)]
     /\ repeats' = repeats + Repeated(ts, used_t[zi_order])
     /\ reused_now' = (reused_now \/ Repeated(ts, issued_t[zi_order]) > 0)

\* ------------------------------------------------------ get_job, compute_probe
\* get_job: under mutex_probe_queue, takes a bunch from the front of
\* requested_probes (compute_probe<N>), or returns when there is none
GetJob(w) ==
  /\ wk[w].pc = "get_job"
  /\ IF requested_probes = <<>>
     THEN /\ TaskReturns(w)
          /\ UNCHANGED requested_probes
     ELSE LET N == compute_bunch_size(Len(requested_probes), thr_n, bunch_size)
          IN /\ requested_probes' = SubSeq(requested_probes, N + 1, Len(requested_probes))
             /\ wk' = [wk EXCEPT ![w].pc = "compute_probe",
                                 ![w].indices = [j \in 1..N |-> requested_probes[j].ind],
                                 ![w].tag = requested_probes[1].prime]
             /\ UNCHANGED threads_idle
  /\ acc' = StepAcc.GetJob
  /\ UNCHANGED <<extVars, confVars, scanVars, tasks, spc, ctrlVars, itemVars, jobVars, startVars,
                 probes_queued, ind, chosen_t, index_map, used_t, issued_t,
                 repeats, reused_now, computed_probes, status, rec, fieldVars>>

\* compute_probe: bb.eval in the current field, then the result is published
ComputeProbe(w) ==
  /\ wk[w].pc = "compute_probe"
  /\ computed_probes' = Append(computed_probes, wk[w].indices)
  /\ TaskReturns(w)
  /\ acc' = StepAcc.ComputeProbe
  /\ UNCHANGED <<extVars, confVars, scanVars, tasks, spc, ctrlVars, itemVars, jobVars, probeVars, startVars,
                 status, rec, fieldVars>>

\* ---------------------------------------------------------------- feed_job
\* feed_job, first part: interpolate_jobs += items, the probes' t and zi_order
\* are looked up in index_map and erased, balance_of_ones is raised
FeedJob(w) ==
  /\ wk[w].pc = "feed_job"
  /\ LET zis == [j \in DOMAIN wk[w].indices |-> index_map[wk[w].indices[j]].zi_order]
         count_ones == Cardinality({j \in DOMAIN zis : prime_it = 0 /\ zis[j] = Ones})
     IN /\ interpolate_jobs' = interpolate_jobs + items
        /\ index_map' = [i \in DOMAIN index_map \ Range(wk[w].indices) |-> index_map[i]]
        /\ balance_of_ones' = balance_of_ones + count_ones
        /\ wk' = [wk EXCEPT ![w].pc = "feed_rec", ![w].zis = zis, ![w].idx = 1,
                            ![w].counter = 0]
  /\ acc' = StepAcc.FeedJob
  /\ UNCHANGED <<extVars, confVars, scanVars, tasks, threads_idle, spc, ctrlVars, itemVars, feed_jobs,
                 probes_queued, ind, chosen_t, requested_probes, used_t, issued_t,
                 repeats, reused_now, probes_for_next_prime, started_probes,
                 computed_probes, status, rec, fieldVars>>

\* feed_job, the loop over reconst: the status of the next function is read
\* and get_done_and_prime() is called
FeedRec(w) ==
  /\ wk[w].pc = "feed_rec"
  /\ LET f == wk[w].idx
         wanted == /\ status[f] = "RECONSTRUCTING"
                   /\ ~rec[f].done
                   /\ rec[f].prime_number = prime_it
     IN wk' = [wk EXCEPT ![w].pc = IF wanted THEN "feed"
                                   ELSE IF f = items THEN "feed_end" ELSE "feed_rec",
                         ![w].idx = IF wanted THEN f ELSE f + 1]
  /\ acc' = StepAcc.None
  /\ UNCHANGED <<extVars, confVars, scanVars, tasks, threads_idle, spc, ctrlVars, itemVars, jobVars,
                 probeVars, startVars, computed_probes, status, rec, fieldVars>>

\* feed_job that never starts an interpolate_job
feed_taken_unnoticed(fed, r) == FALSE

\* if (interpolate_and_write.first): the function has put the probes into its
\* queue
feed_taken(fed, r) == fed # r

\* feed_job, the loop over reconst: the probes are fed, and an interpolate_job
\* is handed to the pool when the function has taken them
Feed(w) ==
  /\ wk[w].pc = "feed"
  /\ LET f == wk[w].idx
         fed == feed(rec[f], wk[w].zis, prime_it)
         taken == feed_taken(fed, rec[f])
     IN /\ rec' = [rec EXCEPT ![f] = fed]
        /\ tasks' = IF taken THEN run_priority_task(tasks, Task("interpolate_job", f, <<>>))
                    ELSE tasks
        /\ wk' = [wk EXCEPT ![w].pc = IF f = items THEN "feed_end" ELSE "feed_rec",
                            ![w].idx = f + 1,
                            ![w].counter = IF taken THEN @ + 1 ELSE @]
  /\ acc' = StepAcc.None
  /\ UNCHANGED <<extVars, confVars, scanVars, threads_idle, spc, ctrlVars, itemVars, jobVars, probeVars,
                 startVars, computed_probes, status, fieldVars>>

\* feed_job taking back every interpolate job it has announced
taken_back_all(its, c) == its

\* feed_job: interpolate_jobs -= (items - counter)
taken_back(its, c) == its - c

\* feed_job, the end: the interpolate jobs not started are taken back
FeedEnd(w) ==
  /\ wk[w].pc = "feed_end"
  /\ interpolate_jobs' = interpolate_jobs - taken_back(items, wk[w].counter)
  /\ feed_jobs' = feed_jobs - 1
  /\ TaskReturns(w)
  /\ acc' = StepAcc.None
  /\ UNCHANGED <<extVars, confVars, scanVars, tasks, spc, ctrlVars, itemVars, probeVars, startVars,
                 computed_probes, status, rec, fieldVars>>


\* the entry of RatReconst::interpolate() without its test of is_interpolating
InterpolateEnter_unguarded(r) ==
  IF r.queue = <<>> THEN r
  ELSE [r EXCEPT !.is_interpolating = TRUE, !.queue = Tail(@)]

\* --------------------------------------------------------- interpolate_job
\* interpolate_job, the entry of RatReconst::interpolate(): under mutex_status,
\* it returns at once when another thread is interpolating or the queue is
\* empty; else it raises is_interpolating and takes the front of the queue
InterpolateEnter(r) ==
  IF r.is_interpolating \/ r.queue = <<>> THEN r
  ELSE [r EXCEPT !.is_interpolating = TRUE, !.queue = Tail(@)]

InterpolateJob(w) ==
  /\ wk[w].pc = "interpolate_job"
  /\ LET f == wk[w].f
         r == rec[f]
         r1 == InterpolateEnter(r)
     IN IF status[f] = "RECONSTRUCTING" /\ r1 # r
        THEN /\ rec' = [rec EXCEPT ![f] = r1]
             /\ wk' = [wk EXCEPT ![w].pc = "interpolate", ![w].food = Head(r.queue)]
        ELSE /\ rec' = rec
             /\ wk' = [wk EXCEPT ![w].pc = "interpolate_react",
                                 ![w].res = [interpolated |-> FALSE, done |-> r.done,
                                             prime |-> r.prime_number]]
  /\ acc' = StepAcc.None
  /\ UNCHANGED <<extVars, confVars, scanVars, tasks, threads_idle, spc, ctrlVars, itemVars, jobVars, probeVars,
                 startVars, computed_probes, status, fieldVars>>

\* the loop of RatReconst::interpolate(): the probe taken is interpolated
\* without the lock; with the lock again, the next probe is taken or
\* is_interpolating is lowered and (interpolated, done, prime) is returned
Interpolate(w) ==
  /\ wk[w].pc = "interpolate"
  /\ LET f == wk[w].f
     IN \E guess \in Guesses(rec[f], wk[w].food.zi) :
          LET r1 == interpolate_one(rec[f], f, wk[w].food.zi, guess)
          IN IF r1.queue # <<>>
             THEN /\ rec' = [rec EXCEPT ![f] = [r1 EXCEPT !.queue = Tail(@)]]
                  /\ wk' = [wk EXCEPT ![w].food = Head(r1.queue)]
             ELSE /\ rec' = [rec EXCEPT ![f] = [r1 EXCEPT !.is_interpolating = FALSE]]
                  /\ wk' = [wk EXCEPT ![w].pc = "interpolate_react", ![w].food = NoFood,
                                      ![w].res = [interpolated |-> TRUE, done |-> r1.done,
                                                  prime |-> r1.prime_number]]
  /\ acc' = StepAcc.None
  /\ UNCHANGED <<extVars, confVars, scanVars, tasks, threads_idle, spc, ctrlVars, itemVars, jobVars, probeVars,
                 startVars, computed_probes, status, fieldVars>>

\* what interpolate_job starts for a function that is neither done nor in need
\* of a new prime: the zi_order, the number of probes, and started_probes and
\* balance_of_ones afterwards
NeededFeed(f) ==
  LET need == get_needed_feed_vec(rec[f], f)[1]
      zi == need.zi_order
  IN IF need.count = 0
     THEN [zi_order |-> zi, to_start |-> 0, started |-> started_probes,
           balance |-> balance_of_ones]
     ELSE IF zi \in DOMAIN started_probes
     THEN IF need.count > started_probes[zi]
          THEN [zi_order |-> zi, to_start |-> need.count - started_probes[zi],
                started |-> [started_probes EXCEPT ![zi] = need.count],
                balance |-> balance_of_ones]
          ELSE [zi_order |-> zi, to_start |-> 0, started |-> started_probes,
                balance |-> balance_of_ones]
     ELSE [zi_order |-> zi, to_start |-> need.count,
           started |-> Emplace(started_probes, zi, need.count),
           balance |-> balance_of_ones]

NextOrders(f) ==
  LET next == get_zi_orders(rec[f], f)
      o == next.orders[1]
      zi == o.zi_order
  IN IF Len(next.orders) = 1 /\ zi = Ones
     THEN IF balance_of_ones # 0
          THEN [zi_order |-> zi, to_start |-> balance_of_ones,
                started |-> AddTo(started_probes, zi, balance_of_ones), balance |-> 0]
          ELSE [zi_order |-> zi, to_start |-> 0, started |-> started_probes,
                balance |-> balance_of_ones]
     ELSE IF zi \in DOMAIN started_probes
     THEN IF next.system_size > started_probes[zi]
          THEN LET to_start == Min2(next.system_size - started_probes[zi], o.count)
               IN [zi_order |-> zi, to_start |-> to_start,
                   started |-> [started_probes EXCEPT ![zi] = @ + to_start],
                   balance |-> balance_of_ones]
          ELSE [zi_order |-> zi, to_start |-> 0, started |-> started_probes,
                balance |-> balance_of_ones]
     ELSE [zi_order |-> zi, to_start |-> o.count,
           started |-> Emplace(started_probes, zi, o.count), balance |-> balance_of_ones]

\* interpolate_job after interpolate() has returned
InterpolateReact(w) ==
  /\ wk[w].pc = "interpolate_react"
  /\ LET f == wk[w].f
         res == wk[w].res
         more == res.interpolated /\ ~res.done /\ res.prime <= prime_it
         plan == IF prime_it # 0 THEN NeededFeed(f) ELSE NextOrders(f)
     IN /\ IF res.interpolated /\ res.done /\ status[f] = "RECONSTRUCTING"
           THEN /\ status' = [status EXCEPT ![f] = "DONE"]
                /\ items_done' = items_done + 1
           ELSE UNCHANGED <<status, items_done>>
        /\ IF res.interpolated /\ ~res.done /\ res.prime > prime_it
           THEN /\ items_new_prime' = items_new_prime + 1
                /\ probes_for_next_prime' = Max2(probes_for_next_prime, get_num_eqn(rec[f], f))
           ELSE UNCHANGED <<items_new_prime, probes_for_next_prime>>
        /\ IF more
           THEN /\ started_probes' = plan.started
                /\ balance_of_ones' = plan.balance
           ELSE UNCHANGED <<started_probes, balance_of_ones>>
        /\ IF more /\ plan.to_start > 0
           THEN \E ts \in Draws(plan.zi_order, plan.to_start) :
                   queue_probes(plan.zi_order, ts, index_map, probes_queued)
           ELSE UNCHANGED <<probeVars, tasks>>
  /\ interpolate_jobs' = interpolate_jobs - 1
  /\ TaskReturns(w)
  /\ acc' = StepAcc.InterpolateReact
  /\ UNCHANGED <<extVars, confVars, scanVars, spc, ctrlVars, items, feed_jobs, computed_probes, rec, fieldVars>>


\* the test for a new prime field passing as soon as one function asks for it
NeedsNewPrime_one == items_new_prime > 0

\* ------------------------------------------------------ the scheduler thread
\* items_done + items_new_prime == items: every function is done or waits for
\* the next prime field
NeedsNewPrime == items_done + items_new_prime = items

\* reset_new_prime(): the bookkeeping of one prime field is thrown away
reset_new_prime ==
  /\ balance_of_ones' = 0
  /\ probes_queued' = 0
  /\ started_probes' = EmptyMap
  /\ index_map' = EmptyMap
  /\ ind' = 0
  /\ feed_jobs' = 0
  /\ interpolate_jobs' = 0
  /\ new_prime' = FALSE
  /\ items_new_prime' = 0
  /\ chosen_t' = [z \in ZiOrders |-> {}]
  /\ issued_t' = [z \in ZiOrders |-> {}]
  /\ requested_probes' = <<>>
  /\ computed_probes' = <<>>

\* start_first_runs, first part: thr_n probes of zi_order (1, ..., 1)
StartFirstRuns ==
  /\ spc = "start_first_runs"
  /\ \E ts \in Draws(Ones, thr_n) : queue_probes(Ones, ts, index_map, probes_queued)
  /\ started_probes' = Emplace(started_probes, Ones, thr_n)
  /\ spc' = "first_get_probe"
  /\ acc' = StepAcc.StartFirstRuns
  /\ UNCHANGED <<extVars, confVars, scanVars, threads_idle, wk, ctrlVars, itemVars, jobVars, balance_of_ones,
                 probes_for_next_prime, computed_probes, status, rec, fieldVars>>

\* start_first_runs, second part: the first result creates the RatReconst
\* objects, each is fed and interpolated on the scheduler thread, and as many
\* probes as the first bunch held are queued
FirstGetProbe ==
  /\ spc = "first_get_probe"
  /\ computed_probes # <<>>
  /\ LET indices == Head(computed_probes)
         zis == [j \in DOMAIN indices |-> index_map[indices[j]].zi_order]
         count_ones == Cardinality({j \in DOMAIN zis : prime_it = 0 /\ zis[j] = Ones})
         born == IF scan THEN scan_for_sparsest_shift(NewRatReconst) ELSE NewRatReconst
         fresh == [f \in Functions |-> interpolate_all(feed(born, zis, prime_it), f)]
         np == {f \in Functions : fresh[f].prime_number > prime_it}
         dn == {f \in Functions \ np : fresh[f].done}
     IN /\ computed_probes' = Tail(computed_probes)
        /\ balance_of_ones' = balance_of_ones + count_ones
        /\ items' = Cardinality(Functions)
        /\ rec' = fresh
        /\ items_new_prime' = items_new_prime + Cardinality(np)
        /\ items_done' = items_done + Cardinality(dn)
        /\ status' = [f \in Functions |-> IF f \in dn THEN "DONE" ELSE "RECONSTRUCTING"]
        /\ \E ts \in Draws(Ones, Len(indices)) :
              queue_probes(Ones, ts,
                           [i \in DOMAIN index_map \ Range(indices) |-> index_map[i]],
                           probes_queued - Len(indices))
        /\ started_probes' = AddTo(started_probes, Ones, Len(indices))
  /\ spc' = "run_until_done"
  /\ acc' = StepAcc.FirstGetProbe
  /\ UNCHANGED <<extVars, confVars, scanVars, threads_idle, wk, ctrlVars, jobVars, probes_for_next_prime,
                 fieldVars>>

\* the loop of run_until_done without its calls of tp.kill_all()
LoopHead_without_kill(d, np) ==
  IF d THEN "exit_reset" ELSE IF np THEN "next_prime" ELSE "get_probe"

\* the head of the loop of run_until_done: while (!done) { if (new_prime) ...
LoopHead(d, np) == IF d \/ np THEN "kill_all" ELSE "get_probe"

\* run_until_done without its branch for a resumed Reconstructor
resume_branch_ignored(rs, p, i, inp, idn) == "fresh"

\* run_until_done, if (resume_from_state): in the first prime field with
\* functions in the middle of it the probes go on, else new_prime = true
resume_branch(rs, p, i, inp, idn) ==
  IF ~rs THEN "fresh"
  ELSE IF p = 0 /\ i # inp + idn THEN "in_field" ELSE "new_prime"

\* run_until_done, its entry.  Resuming in the middle of the first prime field
\* is not modelled further: no behaviour of this model gets there
RunUntilDone ==
  /\ spc = "run_until_done"
  /\ LET br == resume_branch(resume.resume_from_state, prime_it, items,
                             items_new_prime, items_done)
     IN /\ new_prime' = (br = "new_prime")
        /\ spc' = IF br = "in_field" THEN "resume_in_field"
                  ELSE LoopHead(done, br = "new_prime")
  /\ acc' = StepAcc.None
  /\ UNCHANGED <<extVars, confVars, scanVars, poolVars, prime_it, done, itemVars, jobVars, probeVars, startVars,
                 computed_probes, status, rec, fieldVars>>

\* where the scheduler goes on when kill_all() has returned: to the new prime
\* field inside the loop, or behind the loop
AfterKillAll == IF done THEN "exit_reset" ELSE "next_prime"

\* kill_all() that empties the deque and returns without waiting
KillAll_not_waiting ==
  /\ spc = "kill_all"
  /\ tasks' = <<>>
  /\ spc' = IF done THEN "exit_reset" ELSE "next_prime"
  /\ acc' = StepAcc.None
  /\ UNCHANGED <<extVars, confVars, scanVars, threads_idle, wk, ctrlVars, itemVars, jobVars, probeVars,
                 startVars, computed_probes, status, rec, fieldVars>>

\* ThreadPool::kill_all, its entry: the deque is emptied; it returns when all
\* threads are idle and waits on condition_wait otherwise
KillAll ==
  /\ spc = "kill_all"
  /\ tasks' = <<>>
  /\ spc' = IF all_threads_idle THEN AfterKillAll ELSE "kill_all_wait"
  /\ acc' = StepAcc.None
  /\ UNCHANGED <<extVars, confVars, scanVars, threads_idle, wk, ctrlVars, itemVars, jobVars, probeVars,
                 startVars, computed_probes, status, rec, fieldVars>>

\* ThreadPool::kill_all woken up: the deque is emptied again
KillAllWait ==
  /\ spc = "kill_all_wait"
  /\ tasks' = <<>>
  /\ spc' = IF all_threads_idle THEN AfterKillAll ELSE "kill_all_wait"
  /\ acc' = StepAcc.None
  /\ UNCHANGED <<extVars, confVars, scanVars, threads_idle, wk, ctrlVars, itemVars, jobVars, probeVars,
                 startVars, computed_probes, status, rec, fieldVars>>

\* run_until_done that stops one prime field early
PrimeCounterArg_early == prime_counter - 1

\* the argument of run_until_done: prime_counter of reconstruct(), or the
\* default when scan_for_shift calls it
PrimeCounterArg == IF scan THEN ScanPrimeCounter ELSE prime_counter

\* get_early_results() destroying the RatReconst objects it has read
early_results_erase == "ERASED"

\* get_early_results(): std::get<1>(rec) = DELETE
early_results_mark == "DELETE"

\* clean_reconst(): every RatReconst flagged DELETE is deleted and its entry is
\* erased from reconst
clean_reconst(st) == [f \in DOMAIN st |-> IF st[f] = "DELETE" THEN "ERASED" ELSE st[f]]

\* the new prime field: clean_reconst(), ++prime_it, done when prime_counter is
\* reached, then reset_new_prime()
NextPrime ==
  /\ spc = "next_prime"
  /\ status' = clean_reconst(status)
  /\ prime_it' = prime_it + 1
  /\ done' = (prime_it + 1 >= PrimeCounterArg)
  /\ reset_new_prime
  /\ spc' = "set_new_prime"
  /\ acc' = StepAcc.NextPrime
  /\ UNCHANGED <<extVars, confVars, scanVars, poolVars, items, items_done, probes_for_next_prime,
                 used_t, repeats, reused_now, rec, fieldVars>>

\* FFInt::set_new_prime(primes()[prime_it])
SetNewPrime ==
  /\ spc = "set_new_prime"
  /\ ff_prime' = prime_it
  /\ set_new_prime_calls' = set_new_prime_calls + 1
  /\ spc' = "prime_changed"
  /\ acc' = StepAcc.None
  /\ UNCHANGED <<extVars, confVars, scanVars, poolVars, ctrlVars, itemVars, jobVars, probeVars, startVars,
                 computed_probes, status, rec, bb_prime, anchor_prime, prime_changed_calls>>

\* the new prime field entered without the call of bb.prime_changed_internal()
PrimeChanged_skipped ==
  /\ spc = "prime_changed"
  /\ spc' = "anchor_points"
  /\ acc' = StepAcc.None
  /\ UNCHANGED <<extVars, confVars, scanVars, poolVars, ctrlVars, itemVars, jobVars, probeVars, startVars,
                 computed_probes, status, rec, fieldVars>>

\* bb.prime_changed_internal()
PrimeChanged ==
  /\ spc = "prime_changed"
  /\ bb_prime' = ff_prime
  /\ prime_changed_calls' = prime_changed_calls + 1
  /\ spc' = "anchor_points"
  /\ acc' = StepAcc.None
  /\ UNCHANGED <<extVars, confVars, scanVars, poolVars, ctrlVars, itemVars, jobVars, probeVars, startVars,
                 computed_probes, status, rec, ff_prime, anchor_prime, set_new_prime_calls>>

\* the functions counted again after the anchor points were loaded: those not
\* done whose prime field lies behind prime_it
AheadOfPrimeIt(r, p) == {f \in Functions : ~r[f].done /\ r[f].prime_number > p}

\* the anchor points and the shift of the new prime field: loaded from ff_save
\* when a resumed run asks for it (then the functions ahead of prime_it are
\* counted in items_new_prime), else generated, handed to every function and,
\* with save_states, written to ff_save
AnchorPoints ==
  /\ spc = "anchor_points"
  /\ probes_for_next_prime' = IF probes_for_next_prime = 0 THEN thr_n
                              ELSE probes_for_next_prime
  /\ IF resume.save_states /\ resume.load_anchor_points
     THEN /\ resume' = [resume EXCEPT !.load_anchor_points = FALSE]
          /\ anchor_prime' = resume.anchor_file
          /\ items_new_prime' = items_new_prime + Cardinality(AheadOfPrimeIt(rec, prime_it))
     ELSE /\ resume' = [resume EXCEPT !.anchor_file =
                                        IF resume.save_states THEN prime_it ELSE @]
          /\ anchor_prime' = prime_it
          /\ items_new_prime' = items_new_prime
  /\ spc' = "queue_next"
  /\ acc' = StepAcc.None
  /\ UNCHANGED <<lk, multi, pool, aborted, uni, confVars, scanVars, poolVars, ctrlVars, items, items_done, jobVars,
                 probeVars, balance_of_ones,
                 started_probes, computed_probes, status, rec, ff_prime, bb_prime,
                 prime_changed_calls, set_new_prime_calls>>

\* the first probes of the new prime field
QueueNext ==
  /\ spc = "queue_next"
  /\ LET to_start == IF probes_for_next_prime > thr_n THEN thr_n ELSE probes_for_next_prime
     IN /\ \E ts \in Draws(Ones, to_start) : queue_probes(Ones, ts, index_map, probes_queued)
        /\ started_probes' = Emplace(started_probes, Ones, to_start)
  /\ probes_for_next_prime' = 0
  /\ spc' = "get_probe"
  /\ acc' = StepAcc.QueueNext
  /\ UNCHANGED <<extVars, confVars, scanVars, threads_idle, wk, ctrlVars, itemVars, jobVars, balance_of_ones,
                 computed_probes, status, rec, fieldVars>>

\* get_probe, ++feed_jobs and the feed_job handed to the pool
\* get_probe that leaves probes_queued as it is
probes_taken_uncounted(pq, indices) == pq

\* get_probe: probes_queued -= indices.size() under mutex_probe_queue
probes_taken(pq, indices) == pq - Len(indices)

GetProbe ==
  /\ spc = "get_probe"
  /\ computed_probes # <<>>
  /\ computed_probes' = Tail(computed_probes)
  /\ probes_queued' = probes_taken(probes_queued, Head(computed_probes))
  /\ feed_jobs' = feed_jobs + 1
  /\ tasks' = run_priority_task(tasks, Task("feed_job", 0, Head(computed_probes)))
  /\ spc' = "check_status"
  /\ acc' = StepAcc.GetProbe
  /\ UNCHANGED <<extVars, confVars, scanVars, threads_idle, wk, ctrlVars, itemVars, interpolate_jobs, ind, chosen_t,
                 index_map, requested_probes, used_t, issued_t, repeats, reused_now,
                 startVars, status, rec, fieldVars>>

\* the check under status_control, then the check of probes_queued
CheckStatus ==
  /\ spc = "check_status"
  /\ IF items_done = items
     THEN /\ done' = TRUE /\ new_prime' = new_prime /\ spc' = LoopHead(TRUE, new_prime)
     ELSE IF NeedsNewPrime
     THEN /\ done' = done /\ new_prime' = TRUE /\ spc' = LoopHead(done, TRUE)
     ELSE /\ UNCHANGED <<done, new_prime>>
          /\ spc' = IF probes_queued = 0 THEN "wait_feed" ELSE LoopHead(done, new_prime)
  /\ acc' = StepAcc.CheckStatus
  /\ UNCHANGED <<extVars, confVars, scanVars, poolVars, prime_it, itemVars, jobVars, probeVars, startVars,
                 computed_probes, status, rec, fieldVars>>

\* the wait on condition_feed while feed or interpolate jobs are in flight; it
\* is left when probes have been queued meanwhile
WaitFeed ==
  /\ spc = "wait_feed"
  /\ (feed_jobs = 0 /\ interpolate_jobs = 0) \/ probes_queued # 0
  /\ spc' = IF probes_queued # 0 THEN LoopHead(done, new_prime) ELSE "tp_wait"
  /\ acc' = StepAcc.WaitFeed
  /\ UNCHANGED <<extVars, confVars, scanVars, poolVars, ctrlVars, itemVars, jobVars, probeVars, startVars,
                 computed_probes, status, rec, fieldVars>>

\* while (tp.wait()); and the check after it.  attempt_to_continue() is not
\* modelled further: no behaviour of this model gets there
TpWait ==
  /\ spc = "tp_wait"
  /\ all_threads_idle
  /\ IF items_done = items
     THEN /\ done' = TRUE /\ new_prime' = new_prime /\ spc' = LoopHead(TRUE, new_prime)
     ELSE IF NeedsNewPrime
     THEN /\ done' = done /\ new_prime' = TRUE /\ spc' = LoopHead(done, TRUE)
     ELSE /\ UNCHANGED <<done, new_prime>>
          /\ spc' = "attempt_to_continue"
  /\ acc' = StepAcc.None
  /\ UNCHANGED <<extVars, confVars, scanVars, poolVars, prime_it, itemVars, jobVars, probeVars, startVars,
                 computed_probes, status, rec, fieldVars>>

\* behind the loop: reset_new_prime()
ExitReset ==
  /\ spc = "exit_reset"
  /\ reset_new_prime
  /\ spc' = IF scan THEN "scan_check" ELSE "finished"
  /\ acc' = StepAcc.ExitReset
  /\ UNCHANGED <<extVars, confVars, scanVars, poolVars, prime_it, done, items, items_done,
                 probes_for_next_prime, used_t, repeats, reused_now, status, rec,
                 fieldVars>>

\* ------------------------------------------------------------ scan_for_shift
NumOnes(s) == Cardinality({i \in DOMAIN s : s[i] = 1})
RECURSIVE BinVal(_)
BinVal(s) == IF s = <<>> THEN 0 ELSE 2 * BinVal(SubSeq(s, 1, Len(s) - 1)) + s[Len(s)]

\* generate_next_permutation that finds no vector behind any
generate_next_permutation_none(curr_per) ==
  [first |-> FALSE, second |-> [i \in 1..NVars |-> 0]]

\* generate_next_permutation of utils.cpp: std::next_permutation, and when
\* there is none, the first vector with one more 1, or failure after (1, ..., 1)
generate_next_permutation(curr_per) ==
  LET later == {q \in [1..NVars -> {0, 1}] :
                  NumOnes(q) = NumOnes(curr_per) /\ BinVal(q) > BinVal(curr_per)}
      num_of_ones == NumOnes(curr_per)
  IN IF later # {}
     THEN [first |-> TRUE,
           second |-> CHOOSE q \in later : \A o \in later : BinVal(q) <= BinVal(o)]
     ELSE IF num_of_ones = NVars
     THEN [first |-> FALSE, second |-> [i \in 1..NVars |-> 0]]
     ELSE [first |-> TRUE,
           second |-> [i \in 1..NVars |-> IF i >= NVars - num_of_ones THEN 1 ELSE 0]]

\* queue_new_ones(): thr_n probes of zi_order (1, ..., 1)
queue_new_ones ==
  /\ \E ts \in Draws(Ones, thr_n) : queue_probes(Ones, ts, index_map, probes_queued)
  /\ started_probes' = Emplace(started_probes, Ones, thr_n)

\* scan_for_shift behind run_until_done(): every function is set back to
\* RECONSTRUCTING and asked whether the shift works; works are the functions
\* that say so
ScanCheck ==
  /\ spc = "scan_check"
  /\ status' = [f \in Functions |-> "RECONSTRUCTING"]
  /\ rec' = [f \in Functions |-> is_shift_working(rec[f])]
  /\ \E works \in SUBSET Functions :
        found_shift' = IF first THEN FALSE ELSE (works = Functions)
  /\ first' = FALSE
  /\ counter' = IF first THEN counter ELSE counter + 1
  /\ items_done' = 0
  /\ done' = FALSE
  /\ spc' = "scan_loop"
  /\ acc' = StepAcc.None
  /\ UNCHANGED <<extVars, confVars, scan, current_shift, poolVars, prime_it, new_prime, items,
                 items_new_prime, jobVars, probeVars, startVars, computed_probes, fieldVars>>

\* the head of the loop of scan_for_shift with first lowered: the next
\* candidate is set and new probes are queued; or the loop is left, the shift
\* is accepted by every function, and reconstruct() queues new probes and
\* calls run_until_done(prime_counter)
ScanLoop ==
  /\ spc = "scan_loop"
  /\ LET shift_pair == IF counter # 0 THEN generate_next_permutation(current_shift)
                       ELSE [first |-> TRUE, second |-> current_shift]
     IN IF ~found_shift /\ shift_pair.first
        THEN /\ current_shift' = shift_pair.second
             /\ UNCHANGED <<scan, status, rec>>
        ELSE /\ status' = [f \in Functions |-> "RECONSTRUCTING"]
             /\ rec' = [f \in Functions |-> accept_shift(rec[f])]
             /\ scan' = FALSE
             /\ UNCHANGED current_shift
  /\ queue_new_ones
  /\ spc' = "run_until_done"
  /\ acc' = StepAcc.ScanLoop
  /\ UNCHANGED <<extVars, confVars, first, counter, found_shift, threads_idle, wk, ctrlVars, itemVars,
                 jobVars, balance_of_ones, probes_for_next_prime, computed_probes, fieldVars>>

\* ------------------------------------------- RatReconst in one variable
\* RatReconst(1) as RatReconst.cpp has it, fed with the probes of a black box
\* that is a constant num / den.  Arithmetic is that of FFInt modulo the prime
\* of the current field; the primes are small ones in place of the 63-bit
\* primes of the table.  Polynomials of degree 0 are sequences of length 0
\* (no coefficient) or 1.
UniPrimes == <<23, 29, 31>>
BlackBoxes == {[num |-> 3, den |-> 1], [num |-> 7, den |-> 1], [num |-> 1, den |-> 2]}
UniT == 1..MaxUniT

\* FFInt: the inverse, the quotient, and the image of the rational n / d
ModInv(a, p) == CHOOSE x \in 1..(p - 1) : (a * x) % p = 1
FFDiv(a, b, p) == ((a % p) * ModInv(b % p, p)) % p
FFOf(n, d, p) == FFDiv(n % p, d, p)
\* FFInt::p
FFp(r) == UniPrimes[r.field + 1]
\* the black box evaluated at t in the field of p
bb_eval(bb, t, p) == FFOf(bb.num, bb.den, p)

ISqrt(x) == CHOOSE k \in 0..x : k * k <= x /\ (k + 1) * (k + 1) > x
Abs(x) == IF x < 0 THEN -x ELSE x
RECURSIVE GCD(_, _)
GCD(a, b) == IF b = 0 THEN a ELSE GCD(b, a % b)

\* get_rational_coef(a, p): the rational n / d with n = a d modulo p,
\* |n| <= N, 0 < d <= N and gcd(n, d) = 1 for N = floor(sqrt((p - 1) / 2)),
\* if there is one
get_rational_coef(a, m) ==
  LET N == ISqrt((m - 1) \div 2)
      sols == {rn \in UNION {{[numerator |-> (a * d) % m, denominator |-> d],
                              [numerator |-> ((a * d) % m) - m, denominator |-> d]} :
                             d \in 1..N} :
                 Abs(rn.numerator) <= N /\ GCD(Abs(rn.numerator), rn.denominator) = 1}
  IN IF sols = {} THEN [ok |-> FALSE, rn |-> [numerator |-> 0, denominator |-> 1]]
     ELSE [ok |-> TRUE, rn |-> CHOOSE rn \in sols : TRUE]

\* run_chinese_remainder((a1, m1), (a2, m2)): the residue modulo m1 m2
run_chinese_remainder(a1, m1, a2, m2) ==
  [first |-> a1 + m1 * ((((a2 - a1) % m2) * ModInv(m1 % m2, m2)) % m2),
   second |-> m1 * m2]

\* RatReconst::RatReconst(1), constructed while the first prime is set
NewRatReconst1(bb) ==
  [bb |-> bb, field |-> 0, prime_number |-> 0, done |-> FALSE, new_prime |-> FALSE,
   use_chinese_remainder |-> FALSE, check |-> FALSE, ti |-> <<>>, ai |-> <<>>,
   max_deg_num |-> -1, max_deg_den |-> -1, num_eqn |-> 0,
   combined_ni |-> <<>>, combined_di |-> <<>>, combined_prime |-> UniPrimes[1],
   g_ni |-> <<>>, g_di |-> <<>>, non_solved_num |-> FALSE, non_solved_den |-> FALSE,
   coef_mat |-> <<>>, queue |-> <<>>, fed |-> 0, taken |-> 0, used |-> 0, seen |-> {}]

\* RatReconst::feed: the probe is appended to the queue when it was computed
\* in the prime field the function is in
RatReconst_feed(r, new_ti, num, fed_prime) ==
  IF fed_prime = r.prime_number
  THEN [r EXCEPT !.queue = Append(@, [t |-> new_ti, num |-> num])]
  ELSE r

\* rec_rat_coef(): every combined coefficient is promoted to a rational
rec_rat_coef_ok(r) ==
  /\ \A i \in DOMAIN r.combined_ni : get_rational_coef(r.combined_ni[i], r.combined_prime).ok
  /\ \A i \in DOMAIN r.combined_di : get_rational_coef(r.combined_di[i], r.combined_prime).ok
rec_rat_coef(r) ==
  [r EXCEPT !.g_ni = IF r.combined_ni = <<>> THEN @
                     ELSE <<get_rational_coef(r.combined_ni[1], r.combined_prime).rn>>,
            !.g_di = IF r.combined_di = <<>> THEN @
                     ELSE <<get_rational_coef(r.combined_di[1], r.combined_prime).rn>>]

\* the value of a guessed polynomial of degree 0 in the current field
GuessValue(g, p) == IF g = <<>> THEN 0 ELSE FFOf(g[1].numerator, g[1].denominator, p)

\* test_guess(num): the guess evaluated at the probe's point equals the probe
test_guess(r, num) ==
  FFDiv(GuessValue(r.g_ni, FFp(r)), GuessValue(r.g_di, FFp(r)), FFp(r)) = num

\* interpolate(new_ti, num, zi), the branch taken when new_prime is set
new_prime_branch(r, new_ti, num) ==
  LET r1 == [r EXCEPT !.ti = Append(@, new_ti)]
      ok == rec_rat_coef_ok(r1)
      r2 == IF ok THEN rec_rat_coef(r1) ELSE r1
  IN IF ok /\ test_guess(r2, num)
     THEN [r2 EXCEPT !.done = TRUE, !.combined_ni = <<>>, !.combined_di = <<>>,
                     !.combined_prime = 0, !.num_eqn = 0, !.new_prime = FALSE,
                     !.use_chinese_remainder = FALSE]
     ELSE [r2 EXCEPT !.g_ni = IF ok /\ r.combined_ni # <<>> THEN <<>> ELSE @,
                     !.g_di = IF ok /\ r.combined_di # <<>> THEN <<>> ELSE @,
                     !.use_chinese_remainder = TRUE, !.new_prime = FALSE,
                     !.ti = r.ti]

\* comp_fyi(i, ip, y) and comp_ai(i, ip, num) of Thiele's interpolation; the
\* indices count from 0 as in the source
RECURSIVE comp_fyi(_, _, _, _, _, _)
comp_fyi(ai, ti, i, ip, y, p) ==
  IF ip = 0 THEN ai[i + 1]
  ELSE (ai[i - ip + 1] + FFDiv(y - ti[i - ip + 1], comp_fyi(ai, ti, i, ip - 1, y, p), p)) % p
RECURSIVE comp_ai(_, _, _, _, _, _)
comp_ai(ai, ti, i, ip, num, p) ==
  IF ip = 0 THEN num
  ELSE FFDiv(ti[i + 1] - ti[ip], comp_ai(ai, ti, i, ip - 1, num, p) - ai[ip], p)

\* interpolate(new_ti, num, zi) while the degrees are not known: the next
\* step of Thiele's interpolation
thiele(r, new_ti, num) ==
  LET ti1 == Append(r.ti, new_ti)
      i == Len(ti1) - 1
  IN IF i = 0 THEN [r EXCEPT !.ti = ti1, !.ai = <<num>>]
     ELSE IF num = comp_fyi(r.ai, ti1, i - 1, i - 1, new_ti, FFp(r))
     THEN [r EXCEPT !.ti = ti1, !.check = TRUE]
     ELSE [r EXCEPT !.ti = ti1, !.ai = Append(@, comp_ai(r.ai, ti1, i, i, num, FFp(r)))]

\* build_homogenized_multi_gauss for n = 1: one equation in the coefficients
\* not yet solved, the solved ones moved to the right-hand side
build_homogenized_multi_gauss(r, tmp_ti, tmp_num) ==
  LET p == FFp(r)
      lhs == (IF r.non_solved_num THEN <<1>> ELSE <<>>)
               \o (IF r.non_solved_den THEN <<(0 - tmp_num) % p>> ELSE <<>>)
      rhs == (0 - GuessValue(r.g_ni, p) + GuessValue(r.g_di, p) * tmp_num) % p
      mat == Append(r.coef_mat, [lhs |-> lhs, rhs |-> rhs])
  IN [r EXCEPT !.coef_mat = mat, !.check = (Len(mat) = r.num_eqn)]

\* construct_canonical() for ai.size() == 1, all a constant black box leads to
construct_canonical(r) == [first |-> <<r.ai[1]>>, second |-> <<1>>]

\* solve_homogenized_multi_gauss() for one equation in one unknown
solve_homogenized_multi_gauss(r) ==
  LET eq == r.coef_mat[1]
      x == FFDiv(eq.rhs, eq.lhs[1], FFp(r))
  IN [first |-> IF r.non_solved_num THEN <<x>> ELSE <<>>,
      second |-> IF r.non_solved_den THEN <<x>> ELSE <<>>]

\* combine_primes for one coefficient c of the first prime field: solved when
\* it is reconstructed as c / 1
FirstSolved(c, m) ==
  LET q == get_rational_coef(c, m)
  IN q.ok /\ q.rn.numerator = c /\ q.rn.denominator = 1
\* combine_primes for one coefficient of a later field: solved when the
\* rational did not change; where a reconstruction fails, when the residue
\* did not change
LaterSolved(old, m_old, new, m_new) ==
  LET last_rn == get_rational_coef(old, m_old)
      curr_rn == get_rational_coef(new, m_new)
  IN IF last_rn.ok /\ curr_rn.ok THEN last_rn.rn = curr_rn.rn ELSE old = new
LaterValue(old, new, m_new) ==
  LET curr_rn == get_rational_coef(new, m_new)
  IN IF curr_rn.ok THEN curr_rn.rn ELSE [numerator |-> old, denominator |-> 1]

combine_primes(r, tmp) ==
  IF ~r.use_chinese_remainder
  THEN LET sn == tmp.first # <<>> /\ FirstSolved(tmp.first[1], r.combined_prime)
           sd == tmp.second # <<>> /\ FirstSolved(tmp.second[1], r.combined_prime)
       IN [r EXCEPT !.combined_ni = IF sn THEN <<>> ELSE tmp.first,
                    !.combined_di = IF sd THEN <<>> ELSE tmp.second,
                    !.g_ni = IF sn THEN <<[numerator |-> tmp.first[1], denominator |-> 1]>>
                             ELSE @,
                    !.g_di = IF sd THEN <<[numerator |-> tmp.second[1], denominator |-> 1]>>
                             ELSE @,
                    !.non_solved_num = tmp.first # <<>> /\ ~sn,
                    !.non_solved_den = tmp.second # <<>> /\ ~sd,
                    !.num_eqn = (IF tmp.first # <<>> /\ ~sn THEN 1 ELSE 0)
                                  + (IF tmp.second # <<>> /\ ~sd THEN 1 ELSE 0)]
  ELSE LET m == r.combined_prime * FFp(r)
           ni == [i \in DOMAIN r.combined_ni |->
                    run_chinese_remainder(r.combined_ni[i], r.combined_prime,
                                          tmp.first[i], FFp(r)).first]
           di == [i \in DOMAIN r.combined_di |->
                    run_chinese_remainder(r.combined_di[i], r.combined_prime,
                                          tmp.second[i], FFp(r)).first]
           sn == ni # <<>> /\ LaterSolved(r.combined_ni[1], r.combined_prime, ni[1], m)
           sd == di # <<>> /\ LaterSolved(r.combined_di[1], r.combined_prime, di[1], m)
       IN [r EXCEPT !.combined_ni = IF sn THEN <<>> ELSE ni,
                    !.combined_di = IF sd THEN <<>> ELSE di,
                    !.combined_prime = m,
                    !.g_ni = IF sn THEN <<LaterValue(r.combined_ni[1], ni[1], m)>> ELSE @,
                    !.g_di = IF sd THEN <<LaterValue(r.combined_di[1], di[1], m)>> ELSE @,
                    !.non_solved_num = ni # <<>> /\ ~sn,
                    !.non_solved_den = di # <<>> /\ ~sd,
                    !.num_eqn = (IF ni # <<>> /\ ~sn THEN 1 ELSE 0)
                                  + (IF di # <<>> /\ ~sd THEN 1 ELSE 0)]

\* the first canonical form taken for the result at once
after_check_trusting(r) ==
  [r EXCEPT !.check = FALSE, !.done = TRUE, !.g_ni = <<[numerator |-> r.ai[1], denominator |-> 1]>>,
            !.g_di = <<[numerator |-> 1, denominator |-> 1]>>]

\* interpolate(new_ti, num, zi) behind if (check) for n = 1: the canonical
\* form of this field, combine_primes, prime_number++, queue.clear()
after_check(r) ==
  LET thiele_case == r.max_deg_num = -1
      canonical == IF thiele_case THEN construct_canonical(r)
                   ELSE solve_homogenized_multi_gauss(r)
      r1 == IF thiele_case
            THEN [r EXCEPT !.check = FALSE, !.max_deg_num = 0, !.max_deg_den = 0,
                           !.num_eqn = 1, !.ai = <<>>, !.ti = <<>>]
            ELSE [r EXCEPT !.check = FALSE, !.coef_mat = <<>>]
      r2 == combine_primes(r1, canonical)
  IN [r2 EXCEPT !.prime_number = @ + 1, !.queue = <<>>, !.new_prime = TRUE, !.seen = {}]

\* RatReconst::interpolate(new_ti, num, zi)
RatReconst_interpolate(r, new_ti, num) ==
  IF r.done THEN r
  ELSE LET a == IF r.new_prime THEN new_prime_branch(r, new_ti, num) ELSE r
       IN IF a.done THEN [a EXCEPT !.used = @ + 1]
          ELSE LET b == IF a.max_deg_num = -1 THEN thiele(a, new_ti, num)
                        ELSE build_homogenized_multi_gauss(a, new_ti, num)
                   c == [b EXCEPT !.used = @ + 1, !.seen = @ \cup {new_ti}]
               IN IF c.check THEN after_check(c) ELSE c

\* a probe computed in the current field is fed
UniFeed ==
  /\ uni.fed < MaxFeeds
  /\ \E t \in UniT :
       uni' = [RatReconst_feed(uni, t, bb_eval(uni.bb, t, FFp(uni)), uni.field)
                 EXCEPT !.fed = @ + 1]
  /\ UNCHANGED <<lk, multi, runVars, poolVars, pool, aborted>>

\* RatReconst::interpolate(), one round of its loop: the front of the queue is
\* taken and interpolated
UniInterpolate ==
  /\ uni.queue # <<>>
  /\ LET food == Head(uni.queue)
     IN uni' = [RatReconst_interpolate([uni EXCEPT !.queue = Tail(@)], food.t, food.num)
                  EXCEPT !.taken = @ + 1]
  /\ UNCHANGED <<lk, multi, runVars, poolVars, pool, aborted>>

\* the function asks for the next prime field and FFInt::set_new_prime is
\* called with the next prime
UniSetNewPrime ==
  /\ ~uni.done
  /\ uni.prime_number > uni.field
  /\ uni.field + 1 < Len(UniPrimes)
  /\ uni' = [uni EXCEPT !.field = @ + 1]
  /\ UNCHANGED <<lk, multi, runVars, poolVars, pool, aborted>>

\* ------------------------------------------- a ThreadPool and its client
\* A ThreadPool used by a client thread of its own: tasks are submitted with
\* run_task, run_priority_task and run_packaged_task, kill_all() is called,
\* and in the end the pool is destroyed.  A task is a record of the deque
\* whose f is the number of the task.
PoolKinds == {"job", "spawning_job", "throwing_job", "packaged_job"}

\* bool stop {false} and the client before it has used the pool
NewPool == [stop |-> FALSE, client |-> "using", next_id |-> 1, at_stop |-> 0,
            executed |-> {}, discarded |-> {}, thrown |-> {}, held |-> {},
            caught |-> {}, terminated |-> FALSE,
            waits |-> 0, wait_ret |-> "none", done_at_wait |-> {}]

PoolTask(kind) == Task(kind, pool.next_id, <<>>)
Ids(ts) == {ts[i].f : i \in DOMAIN ts}
Returned == {w \in Threads : wk[w].pc = "returned"}
PoolUp == ~pool.terminated

\* a worker that leaves its loop as soon as stop is set
ShouldReturn_on_stop(s, ts) == s

\* the worker's test after its wait: if (stop && tasks.empty()) return
ShouldReturn(s, ts) == s /\ ts = <<>>

\* run_task: the task goes to the back of the deque
PoolRunTask ==
  /\ PoolUp /\ pool.client = "using" /\ pool.next_id <= MaxJobs
  /\ \E kind \in {"job", "spawning_job", "throwing_job"} :
       tasks' = run_task(tasks, PoolTask(kind))
  /\ pool' = [pool EXCEPT !.next_id = @ + 1]
  /\ UNCHANGED <<lk, multi, uni, aborted, runVars, threads_idle, wk>>

\* run_priority_task: the task goes to the front of the deque
PoolRunPriorityTask ==
  /\ PoolUp /\ pool.client = "using" /\ pool.next_id <= MaxJobs
  /\ tasks' = run_priority_task(tasks, PoolTask("job"))
  /\ pool' = [pool EXCEPT !.next_id = @ + 1]
  /\ UNCHANGED <<lk, multi, uni, aborted, runVars, threads_idle, wk>>

\* run_packaged_task: the task is wrapped in a packaged_task whose future the
\* client keeps
PoolRunPackagedTask ==
  /\ PoolUp /\ pool.client = "using" /\ pool.next_id <= MaxJobs
  /\ tasks' = run_task(tasks, PoolTask("packaged_job"))
  /\ pool' = [pool EXCEPT !.next_id = @ + 1]
  /\ UNCHANGED <<lk, multi, uni, aborted, runVars, threads_idle, wk>>

\* the worker's loop in a pool that can be destroyed: pops the front of the
\* deque whenever there is one, also when stop is set
PoolTake(w) ==
  /\ PoolUp
  /\ ~ShouldReturn(pool.stop, tasks)
  /\ WorkerTake(w)

\* the worker's loop: return when stop is set and the deque is empty;
\* threads_idle[i] has been set to false before the test
PoolReturn(w) ==
  /\ PoolUp
  /\ wk[w].pc = "idle"
  /\ ShouldReturn(pool.stop, tasks)
  /\ wk' = [wk EXCEPT ![w].pc = "returned"]
  /\ threads_idle' = [threads_idle EXCEPT ![w] = FALSE]
  /\ UNCHANGED <<lk, multi, uni, aborted, runVars, tasks, pool>>

\* task(i) of a task that returns
PoolJob(w) ==
  /\ PoolUp
  /\ wk[w].pc = "job"
  /\ pool' = [pool EXCEPT !.executed = @ \cup {wk[w].f}]
  /\ TaskReturns(w)
  /\ UNCHANGED <<lk, multi, uni, aborted, runVars, tasks>>

\* task(i) of a task that submits another task before it returns, as
\* feed_job and interpolate_job do
PoolSpawningJob(w) ==
  /\ PoolUp
  /\ wk[w].pc = "spawning_job"
  /\ IF pool.next_id <= MaxJobs
     THEN /\ tasks' = run_task(tasks, PoolTask("job"))
          /\ pool' = [pool EXCEPT !.executed = @ \cup {wk[w].f}, !.next_id = @ + 1]
     ELSE /\ tasks' = tasks
          /\ pool' = [pool EXCEPT !.executed = @ \cup {wk[w].f}]
  /\ TaskReturns(w)
  /\ UNCHANGED <<lk, multi, uni, aborted, runVars>>

\* task(i) of a task that throws: nothing in the worker's loop catches, the
\* exception leaves the thread's function and std::terminate ends the process
PoolThrowingJob(w) ==
  /\ PoolUp
  /\ wk[w].pc = "throwing_job"
  /\ pool' = [pool EXCEPT !.thrown = @ \cup {wk[w].f}, !.terminated = TRUE]
  /\ UNCHANGED <<lk, multi, uni, aborted, runVars, tasks, threads_idle, wk>>

\* task(i) of a packaged task that throws: the packaged_task stores the
\* exception in the shared state of its future, and the task returns
PoolPackagedJob(w) ==
  /\ PoolUp
  /\ wk[w].pc = "packaged_job"
  /\ pool' = [pool EXCEPT !.thrown = @ \cup {wk[w].f}, !.held = @ \cup {wk[w].f},
                          !.executed = @ \cup {wk[w].f}]
  /\ TaskReturns(w)
  /\ UNCHANGED <<lk, multi, uni, aborted, runVars, tasks>>

\* future.get() on the client's thread rethrows what the task has thrown
PoolFutureGet ==
  /\ PoolUp /\ pool.client = "using"
  /\ \E id \in pool.held \ pool.caught :
       pool' = [pool EXCEPT !.caught = @ \cup {id}]
  /\ UNCHANGED <<lk, multi, uni, aborted, runVars, tasks, threads_idle, wk>>

\* kill_all() called by the client, and kill_all() woken up: the deque is
\* emptied, and it returns when all threads are idle
PoolKillAll ==
  /\ PoolUp /\ pool.client \in {"using", "kill_all_wait"}
  /\ tasks' = <<>>
  /\ pool' = [pool EXCEPT !.discarded = @ \cup Ids(tasks),
                          !.client = IF all_threads_idle THEN "using"
                                     ELSE "kill_all_wait"]
  /\ UNCHANGED <<lk, multi, uni, aborted, runVars, threads_idle, wk>>

\* ~ThreadPool, its entry: stop = true and notify_all
PoolDestroy ==
  /\ PoolUp /\ pool.client = "using"
  /\ pool' = [pool EXCEPT !.stop = TRUE, !.client = "joining", !.at_stop = Len(tasks)]
  /\ UNCHANGED <<lk, multi, uni, aborted, runVars, tasks, threads_idle, wk>>

\* ~ThreadPool, its end: every thread has been joined
PoolJoined ==
  /\ PoolUp /\ pool.client = "joining"
  /\ Returned = Threads
  /\ pool' = [pool EXCEPT !.client = "destroyed"]
  /\ UNCHANGED <<lk, multi, uni, aborted, runVars, tasks, threads_idle, wk>>

\* ------------------------------------------------------------- persistence
\* the default argument of reconstruct(): the primes a run has at its disposal
MaxPrimes == 300
\* prime_it = 400 before the minimum over the state files is taken
ResumeStart == 400

\* no tags set, nothing to resume from.  stored, files, anchor_file and
\* probe_files stand for ff_save: the prime in the name of each state file, the
\* RatReconst it holds, the field of the anchor points, the number of probe logs
NoResume ==
  [save_states |-> FALSE, resume_from_state |-> FALSE, load_anchor_points |-> FALSE,
   stored |-> [f \in Functions |-> 0],
   files |-> [f \in Functions |-> NewRatReconst],
   anchor_file |-> 0, probe_files |-> 0, saved_prime |-> 0]

\* bb.prime_changed_internal() throwing in a run with save_states (the black
\* box of test_save_write): reconstruct() is left by the exception.  ff_save
\* holds what the finished prime field left: a state file per function named
\* after that prime field, and the anchor points of that field
PrimeChangedThrows ==
  /\ spc = "prime_changed"
  /\ resume.save_states /\ ~resume.resume_from_state
  /\ ~scan
  /\ resume' = [resume EXCEPT !.stored = [f \in Functions |-> prime_it - 1],
                              !.files = rec,
                              !.probe_files = items,
                              !.saved_prime = prime_it - 1]
  /\ spc' = "interrupted"
  /\ acc' = StepAcc.None
  /\ UNCHANGED <<lk, multi, pool, aborted, uni, confVars, scanVars, poolVars, ctrlVars, itemVars, jobVars,
                 probeVars, startVars, computed_probes, status, rec, fieldVars>>

\* the directories ff_save/states and ff_save/probes a user can hand over: as
\* the interrupted run left them, with the state file of one function replaced
\* by one of a prime field out of reach, or with one probe log missing
StoredChoices ==
  {resume.stored} \cup
  {[resume.stored EXCEPT ![g] = @ + MaxPrimes + 1] : g \in Functions}
ProbeFileChoices == {resume.probe_files, resume.probe_files - 1}

\* RatReconst::start_from_saved_file: the object as it was saved; a file named
\* after prime field l holds an object that waits for prime field l + 1
start_from_saved_file(file, l) ==
  IF file.done THEN file
  ELSE [file EXCEPT !.prime_number = l + 1, !.new_prime = TRUE]

\* resume_from_saved_state: prime_it = 400, then the minimum over the files
resume_prime_it(st) == Min({ResumeStart} \cup {st[f] : f \in DOMAIN st})
\* resume_from_saved_state: if (rec->is_done()) ++items_done
resume_items_done(r) == Cardinality({f \in DOMAIN r : r[f].done})
\* resume_from_saved_state: else if (rec->is_new_prime()) ++items_new_prime
resume_new_prime(r) == {f \in DOMAIN r : ~r[f].done /\ r[f].new_prime}
\* resume_from_saved_state: if (rec->get_prime() == prime_it + 1)
resume_load_anchor_points(r, p) == \E f \in resume_new_prime(r) : r[f].prime_number = p + 1
\* std::max over rec->get_num_eqn() of the functions that wait for a new prime
resume_probes_for_next_prime(r) ==
  LET ns == {get_num_eqn(r[f], f) : f \in resume_new_prime(r)}
  IN IF ns = {} THEN 0 ELSE CHOOSE x \in ns : \A y \in ns : y <= x

\* a new Reconstructor with the same arguments, set_tags() and
\* resume_from_saved_state(file_paths): prime_it is the minimum of the primes
\* of the state files, the field is set, the probe logs are counted (exit when
\* their number is not items), every RatReconst is loaded and counted as done
\* or as waiting for a new prime.  What read_in_probes puts into chosen_t is
\* stale or nothing
ResumeFromSavedState ==
  /\ spc = "interrupted"
  /\ \E st \in StoredChoices, pf \in ProbeFileChoices, old \in {{}, {Min(TValues)}} :
       LET n == Cardinality(Functions)
           ok == pf = n
           p == resume_prime_it(st)
           loaded == [f \in Functions |-> start_from_saved_file(resume.files[f], st[f])]
       IN /\ items' = n
          /\ prime_it' = p
          /\ ff_prime' = p /\ bb_prime' = p
          /\ set_new_prime_calls' = 2 /\ prime_changed_calls' = 2
          /\ spc' = IF ok THEN "reconstruct" ELSE "exit_failure"
          /\ rec' = IF ok THEN loaded ELSE [f \in Functions |-> NewRatReconst]
          /\ status' = [f \in Functions |-> IF ok /\ loaded[f].done THEN "DONE"
                                             ELSE "RECONSTRUCTING"]
          /\ items_done' = IF ok THEN resume_items_done(loaded) ELSE 0
          /\ items_new_prime' = IF ok THEN Cardinality(resume_new_prime(loaded)) ELSE 0
          /\ probes_for_next_prime' = IF ok THEN resume_probes_for_next_prime(loaded) ELSE 0
          /\ chosen_t' = [z \in ZiOrders |-> IF ok /\ z = Ones THEN old ELSE {}]
          /\ started_probes' = IF ok THEN Emplace(EmptyMap, Ones, Cardinality(old))
                               ELSE EmptyMap
          /\ resume' = [resume EXCEPT !.resume_from_state = TRUE,
                                      !.stored = st, !.probe_files = pf,
                                      !.load_anchor_points =
                                         ok /\ resume_load_anchor_points(loaded, p)]
  /\ done' = FALSE /\ new_prime' = FALSE
  /\ tasks' = <<>>
  /\ threads_idle' = [w \in 1..thr_n |-> TRUE]
  /\ wk' = [w \in 1..thr_n |-> IdleWk]
  /\ feed_jobs' = 0 /\ interpolate_jobs' = 0
  /\ probes_queued' = 0 /\ ind' = 0 /\ balance_of_ones' = 0
  /\ index_map' = EmptyMap
  /\ requested_probes' = <<>> /\ computed_probes' = <<>>
  /\ issued_t' = [z \in ZiOrders |-> {}]
  /\ used_t' = [z \in ZiOrders |-> {}]
  /\ repeats' = 0 /\ reused_now' = FALSE
  /\ acc' = StepAcc.None
  /\ UNCHANGED <<lk, multi, pool, aborted, uni, confVars, scanVars, anchor_prime>>

\* reconstruct() of a resumed Reconstructor: scan = false, done when every
\* function is done, else run_until_done(prime_counter)
ReconstructResumed ==
  /\ spc = "reconstruct"
  /\ done' = (items_done = items)
  /\ spc' = IF items_done = items THEN "finished" ELSE "run_until_done"
  /\ acc' = StepAcc.None
  /\ UNCHANGED <<extVars, confVars, scanVars, poolVars, prime_it, new_prime, itemVars, jobVars,
                 probeVars, startVars, computed_probes, status, rec, fieldVars>>

\* the mutexes of the Reconstructor and the mutex of its ThreadPool
Mutexes ==
  {"mutex_probe_queue", "future_control", "feed_control", "job_control", "status_control",
   "chosen_mutex", "clean", "print_control", "pool_mutex"}

\* a thread that is in none of the functions that lock a mutex
Outside == [sec |-> "outside", pc |-> 0]
\* every mutex free
NoLocks ==
  [owner |-> [m \in Mutexes |-> "free"],
   at |-> [t \in {"scheduler", "user", "worker1", "worker2"} |-> Outside]]

\* the shift drawn by the first RatReconst constructed
FirstShift == 1
\* the shift of all zeros that disable_shift() sets
NoShift == 0

\* RatReconst(n) with n > 1 before its first probe, the static shift, the
\* Reconstructor's copy of the shift and its prime_it, the probes that the
\* workers are computing, and whether an interpolate_job is running
NewMulti ==
  [shift |-> FirstShift, r_shift |-> FirstShift, prime_it |-> 0,
   computing |-> <<>>, interpolating |-> FALSE,
   queue |-> <<>>, saved_ti |-> [x \in {} |-> <<>>], curr_zi_order |-> 1,
   max_deg_num |-> -1, ti |-> <<>>, coef_mat |-> <<>>, num_eqn |-> 0,
   prime_number |-> 0, new_prime |-> FALSE, done |-> FALSE,
   read_empty |-> FALSE, read_saved |-> FALSE]

\* ------------------------------------------------------------ specification
InitRun ==
  /\ \E c \in Configs : /\ thr_n = c.thr_n /\ bunch_size = c.bunch_size
                        /\ deg = c.deg /\ scan = c.scan
  /\ first = TRUE /\ counter = 0 /\ found_shift = FALSE
  /\ current_shift = [i \in 1..NVars |-> 0]
  /\ tasks = <<>>
  /\ threads_idle = [w \in 1..thr_n |-> TRUE]
  /\ wk = [w \in 1..thr_n |-> IdleWk]
  /\ spc = "start_first_runs"
  /\ prime_it = 0 /\ done = FALSE /\ new_prime = FALSE
  /\ items = 0 /\ items_done = 0 /\ items_new_prime = 0
  /\ feed_jobs = 0 /\ interpolate_jobs = 0
  /\ probes_queued = 0 /\ ind = 0 /\ balance_of_ones = 0 /\ probes_for_next_prime = 0
  /\ started_probes = EmptyMap
  /\ chosen_t = [z \in ZiOrders |-> {}]
  /\ index_map = EmptyMap
  /\ requested_probes = <<>> /\ computed_probes = <<>>
  /\ status = [f \in Functions |-> "RECONSTRUCTING"]
  /\ rec = [f \in Functions |-> NewRatReconst]
  /\ ff_prime = 0 /\ bb_prime = 0 /\ anchor_prime = 0
  /\ prime_changed_calls = 1 /\ set_new_prime_calls = 1
  /\ used_t = [z \in ZiOrders |-> {}]
  /\ issued_t = [z \in ZiOrders |-> {}]
  /\ repeats = 0 /\ reused_now = FALSE
  /\ acc = {}

\* the Reconstructor constructed, nothing else in use
Init ==
  /\ InitRun
  /\ pool = NewPool
  /\ aborted = FALSE
  /\ uni = NewRatReconst1(CHOOSE bb \in BlackBoxes : bb.num = 3)
  /\ resume = NoResume
  /\ lk = NoLocks
  /\ multi = NewMulti

Next ==
  \/ StartFirstRuns
  \/ FirstGetProbe
  \/ RunUntilDone
  \/ KillAll
  \/ KillAllWait
  \/ NextPrime
  \/ SetNewPrime
  \/ PrimeChanged
  \/ AnchorPoints
  \/ QueueNext
  \/ GetProbe
  \/ CheckStatus
  \/ WaitFeed
  \/ TpWait
  \/ ExitReset
  \/ ScanCheck
  \/ ScanLoop
  \/ \E w \in Threads : WorkerTake(w)
  \/ \E w \in Threads : GetJob(w)
  \/ \E w \in Threads : ComputeProbe(w)
  \/ \E w \in Threads : FeedJob(w)
  \/ \E w \in Threads : FeedRec(w)
  \/ \E w \in Threads : Feed(w)
  \/ \E w \in Threads : FeedEnd(w)
  \/ \E w \in Threads : InterpolateJob(w)
  \/ \E w \in Threads : Interpolate(w)
  \/ \E w \in Threads : InterpolateReact(w)

Spec == Init /\ [][Next]_vars

\* the flag aborted raised from outside while reconstruct() runs
Abort ==
  /\ ~aborted
  /\ spc # "finished"
  /\ aborted' = TRUE
  /\ UNCHANGED <<lk, multi, uni, runVars, poolVars, pool>>

NextAbort ==
  \/ Abort
  \/ Next

SpecAbort == Init /\ [][NextAbort]_vars

\* get_early_results() called from another thread while reconstruct() runs:
\* nothing during the shift scan; else, under the mutex clean, every function
\* that is DONE is read and flagged DELETE
GetEarlyResults ==
  /\ ~scan
  /\ spc \notin {"finished", "destroyed"}
  /\ \E f \in Functions : status[f] = "DONE"
  /\ status' = [f \in Functions |-> IF status[f] = "DONE" THEN early_results_mark
                                     ELSE status[f]]
  /\ UNCHANGED <<extVars, confVars, scanVars, poolVars, spc, ctrlVars, itemVars, jobVars,
                 probeVars, startVars, computed_probes, rec, fieldVars, acc>>

\* ~Reconstructor after reconstruct() has returned: tp.kill_all(), then every
\* RatReconst is deleted
Destroy ==
  /\ spc = "finished"
  /\ all_threads_idle
  /\ tasks' = <<>>
  /\ status' = [f \in Functions |-> "ERASED"]
  /\ spc' = "destroyed"
  /\ UNCHANGED <<extVars, confVars, scanVars, threads_idle, wk, ctrlVars, itemVars, jobVars,
                 probeVars, startVars, computed_probes, rec, fieldVars, acc>>

NextEarly ==
  \/ GetEarlyResults
  \/ Destroy
  \/ Next

SpecEarly == Init /\ [][NextEarly]_vars

\* a Reconstructor with set_tags(); its black box throws in prime_changed, and
\* a second Reconstructor resumes from ff_save
InitResume ==
  /\ InitRun
  /\ pool = NewPool
  /\ aborted = FALSE
  /\ uni = NewRatReconst1(CHOOSE bb \in BlackBoxes : bb.num = 3)
  /\ resume = [NoResume EXCEPT !.save_states = TRUE]
  /\ lk = NoLocks
  /\ multi = NewMulti

NextResume ==
  \/ PrimeChangedThrows
  \/ ResumeFromSavedState
  \/ ReconstructResumed
  \/ Next

SpecResume == InitResume /\ [][NextResume]_vars

\* the ThreadPool with its own client
InitPool == Init

\* RatReconst(1) and a black box that is a constant
InitUni ==
  /\ InitRun /\ thr_n = 1 /\ ~scan
  /\ pool = NewPool
  /\ aborted = FALSE
  /\ \E bb \in BlackBoxes : uni = NewRatReconst1(bb)
  /\ resume = NoResume
  /\ lk = NoLocks
  /\ multi = NewMulti

NextUni ==
  \/ UniFeed
  \/ UniInterpolate
  \/ UniSetNewPrime

SpecUni == InitUni /\ [][NextUni]_vars

NextPool ==
  \/ PoolRunTask
  \/ PoolRunPriorityTask
  \/ PoolRunPackagedTask
  \/ PoolFutureGet
  \/ PoolKillAll
  \/ PoolDestroy
  \/ PoolJoined
  \/ \E w \in Threads : PoolTake(w)
  \/ \E w \in Threads : PoolReturn(w)
  \/ \E w \in Threads : PoolJob(w)
  \/ \E w \in Threads : PoolSpawningJob(w)
  \/ \E w \in Threads : PoolThrowingJob(w)
  \/ \E w \in Threads : PoolPackagedJob(w)

SpecPool == InitPool /\ [][NextPool]_vars

\* ------------------------------------------------------------ properties
Interpolating(f) == {w \in Threads : wk[w].pc = "interpolate" /\ wk[w].f = f}
AllIdle == \A w \in Threads : wk[w].pc = "idle" /\ threads_idle[w]
PendingGetJobs ==
  Cardinality({i \in DOMAIN tasks : tasks[i].kind = "get_job"})
    + Cardinality({w \in Threads : wk[w].pc = "get_job"})
\* the interpolation state of a function
Frozen(r) == <<r.done, r.result, r.prime_number, r.curr_zi_order, r.got, r.saved_ti,
               r.new_prime>>
Live == {f \in Functions : status[f] # "DONE" /\ ~rec[f].done}

\* C1: at most one thread interpolates a given function; a call of
\* interpolate() made while another one is in progress on the same function
\* returns without touching the function, and a feed made meanwhile only
\* appends the probes to the function's queue.
C1_OneInterpolation ==
  [][\A f \in Functions :
       /\ Cardinality(Interpolating(f))' <= 1
       /\ (rec[f].is_interpolating <=> Interpolating(f) # {})'
       /\ \A w \in Threads :
            /\ (/\ rec[f].is_interpolating
                /\ wk[w].pc = "interpolate_job" /\ wk[w].f = f
                /\ wk'[w].pc # "interpolate_job")
               => (/\ rec'[f] = rec[f]
                   /\ wk'[w].pc = "interpolate_react"
                   /\ ~wk'[w].res.interpolated)
            /\ (/\ rec[f].is_interpolating
                /\ wk[w].pc = "feed" /\ wk[w].idx = f
                /\ wk'[w].pc # "feed")
               => \E q \in {<<>>, Fed(wk[w].zis, prime_it)} : rec'[f] = [rec[f] EXCEPT !.queue = @ \o q]
  ]_vars
\* a call returned without interpolating while another thread interpolates
\* the function and a probe fed meanwhile waits in its queue
C1_Witness ==
  \E f \in Functions : \E w \in Threads :
     /\ Interpolating(f) # {}
     /\ wk[w].pc = "interpolate_react" /\ wk[w].f = f /\ ~wk[w].res.interpolated
     /\ rec[f].queue # <<>>

\* C2: a new prime field is entered behind a barrier: every task queued or
\* running and every requested probe belongs to the current prime field and to
\* its anchor points; from reset_new_prime() until the first probes of the new
\* field are queued no task is queued or running and the probe queues are empty.
C2_Barrier ==
  /\ \A i \in DOMAIN tasks : tasks[i].prime = prime_it
  /\ \A w \in Threads : wk[w].pc # "idle" => wk[w].tag = prime_it
  /\ \A i \in DOMAIN requested_probes :
        requested_probes[i].prime = prime_it /\ requested_probes[i].anchor = prime_it
  /\ spc = "next_prime" => tasks = <<>> /\ AllIdle
  /\ spc \in {"set_new_prime", "prime_changed", "anchor_points", "queue_next"}
       => /\ tasks = <<>> /\ AllIdle
          /\ requested_probes = <<>> /\ computed_probes = <<>> /\ index_map = EmptyMap
\* probes of the second prime field are requested, with its anchor points
C2_Witness ==
  /\ prime_it = 1 /\ anchor_prime = 1
  /\ requested_probes # <<>>
  /\ \E w \in Threads : wk[w].pc = "compute_probe"

\* C3: FFInt::set_new_prime changes the prime only while no task is queued and
\* no worker runs one, and every task that runs has been started in the
\* current field.
C3_PrimeChangeQuiescent ==
  [][/\ ff_prime' # ff_prime => tasks = <<>> /\ tasks' = <<>> /\ AllIdle /\ AllIdle'
     /\ (\A w \in Threads : wk[w].pc # "idle" => wk[w].tag = ff_prime)'
  ]_vars
\* the prime has just been changed
C3_Witness == ff_prime = 1 /\ spc = "prime_changed" /\ set_new_prime_calls = 2 /\ AllIdle

\* C4 as stated: no value of t is ever used for two probes of one zi_order.
C4_NeverReused == repeats = 0
\* C4: between two calls of reset_new_prime(), that is within one prime field
\* or one run of the shift scan, no value of t is used for two probes of one
\* zi_order.
C4_NotReusedWithinField == ~reused_now
\* a value of the first prime field has been handed out again in the second
C4_Witness ==
  /\ repeats > 0 /\ prime_it = 1
  /\ \E z \in ZiOrders : Cardinality(issued_t[z]) >= 2

\* C5 as stated: a function that is Done stays Done and keeps its result.
C5_DoneAbsorbing ==
  [][\A f \in Functions :
       /\ status[f] = "DONE" => status'[f] = "DONE"
       /\ rec[f].done => rec'[f].done /\ rec'[f].result = rec[f].result
  ]_vars
\* C5: when the shift scan is over or there is none, a function that is Done
\* stays Done, and no feed, interpolate call or scheduler step changes its
\* result or its interpolation state.
C5_DoneAbsorbingOutsideScan ==
  [][\A f \in Functions :
       ~scan => /\ status[f] = "DONE" => status'[f] = "DONE"
                /\ rec[f].done => Frozen(rec'[f]) = Frozen(rec[f])
  ]_vars
\* outside the scan, a thread is in interpolate() of a function that is done
C5_Witness ==
  /\ ~scan
  /\ \E w \in Threads : wk[w].pc = "interpolate" /\ rec[wk[w].f].done

C8_PrimeChangedOnce ==
  /\ set_new_prime_calls = IF spc = "set_new_prime" THEN prime_it ELSE prime_it + 1
  /\ prime_changed_calls =
       IF spc \in {"set_new_prime", "prime_changed"} THEN prime_it ELSE prime_it + 1
  /\ bb_prime = IF spc = "prime_changed" THEN ff_prime - 1 ELSE ff_prime
  /\ \A w \in Threads :
        wk[w].pc = "compute_probe"
          => /\ bb_prime = ff_prime /\ wk[w].tag = bb_prime
             /\ prime_changed_calls = set_new_prime_calls
\* a worker evaluates the black box in the second prime field
C8_Witness ==
  /\ prime_changed_calls = 2 /\ bb_prime = 1
  /\ \E w \in Threads : wk[w].pc = "compute_probe" /\ wk[w].tag = 1

\* C9: while the scheduler runs its loop every requested probe has a get_job
\* queued or running that will take it, and when the scheduler waits for a
\* result, a worker is evaluating probes or probes are requested.
C9_NoStarvation ==
  /\ spc \notin {"kill_all_wait", "next_prime", "exit_reset"}
       => (requested_probes # <<>> => PendingGetJobs > 0)
  /\ (spc \in {"get_probe", "first_get_probe"} /\ computed_probes = <<>>)
       => \/ \E w \in Threads : wk[w].pc = "compute_probe"
          \/ requested_probes # <<>>
\* the single worker evaluates a bunch of probes while the scheduler waits
C9_Witness ==
  /\ thr_n = 1 /\ bunch_size = 4
  /\ spc = "get_probe" /\ computed_probes = <<>>
  /\ \E w \in Threads : wk[w].pc = "compute_probe" /\ Len(wk[w].indices) > 1

\* C10: when kill_all() has returned the deque is empty and every worker is
\* idle.
C10_KillAllReturns ==
  spc \in {"next_prime", "exit_reset"} => tasks = <<>> /\ AllIdle
\* kill_all() has returned and probes are left whose get_job was discarded
C10_Witness ==
  /\ spc \in {"next_prime", "exit_reset"}
  /\ requested_probes # <<>> /\ tasks = <<>>

\* the tasks submitted to the pool so far
Submitted == 1..(pool.next_id - 1)

\* C11: when the destructor of the ThreadPool has returned, the deque is empty,
\* no task is running, every thread has left its loop, and every task that was
\* submitted and not discarded by kill_all() has been executed to its end.
C11_DestructorDrains ==
  pool.client = "destroyed" =>
    /\ tasks = <<>>
    /\ Returned = Threads
    /\ Submitted \ pool.discarded \subseteq pool.executed

\* the pool was destroyed with tasks in its deque, after a kill_all() that
\* discarded some, and the destructor has returned
C11_Witness ==
  /\ pool.client = "destroyed"
  /\ pool.at_stop >= 2
  /\ pool.discarded # {}
  /\ pool.executed # {}

\* C13: an exception thrown by a task on a worker thread is kept for the
\* scheduler thread (which then persists the state and aborts); it does not
\* end the process.
C13_ExceptionReachesScheduler ==
  /\ ~pool.terminated
  /\ pool.thrown \subseteq pool.held

\* C16: reconstruct(prime_counter) never works in a prime field whose index is
\* prime_counter or larger: outside the shift scan the field that is set, and
\* in which the black box is probed, has an index below prime_counter.
C16_FieldBelowPrimeCounter ==
  ~scan => /\ ff_prime < prime_counter
           /\ \A w \in Threads : wk[w].pc = "compute_probe" => wk[w].tag < prime_counter

\* C14: once the flag aborted is set during a reconstruction, the scheduler's
\* outer loop dispatches no further probes: nothing is added to the queue of
\* requested probes, and the scheduler does not go back to waiting for a probe.
C14_AbortStopsDispatch ==
  [][aborted => /\ ind' = ind
                /\ (spc' = "get_probe" => spc = "get_probe")]_vars

\* the mutex that guards each variable of the probe bookkeeping
GuardOf ==
  [requested_probes |-> "mutex_probe_queue", index_map |-> "mutex_probe_queue",
   probes_queued |-> "mutex_probe_queue", ind |-> "mutex_probe_queue",
   computed_probes |-> "future_control", started_probes |-> "job_control",
   chosen_t |-> "chosen_mutex"]

\* the variables a task of the pool reads or writes, the tasks it hands to the
\* pool included
Touches(kind) ==
  IF kind \in {"get_job", "compute_probe"} THEN {"requested_probes", "computed_probes"}
  ELSE IF kind = "idle" THEN {}
  ELSE {"index_map", "started_probes", "chosen_t", "requested_probes", "ind",
        "probes_queued", "computed_probes"}

\* the variables some queued or running task of the pool may touch
TouchedByPool ==
  UNION ({Touches(tasks[i].kind) : i \in DOMAIN tasks}
           \cup {Touches(wk[w].pc) : w \in Threads})

InterpolateTasksOn(f) ==
  {i \in DOMAIN tasks : tasks[i].kind = "interpolate_job" /\ tasks[i].f = f}
    \cup {w \in Threads : /\ wk[w].pc \in {"interpolate_job", "interpolate", "interpolate_react"}
                          /\ wk[w].f = f}
\* the feed and interpolate tasks, queued or running
RecTasks ==
  {i \in DOMAIN tasks : tasks[i].kind \in {"feed_job", "interpolate_job"}}
    \cup {w \in Threads : wk[w].pc \in {"feed_job", "feed_rec", "feed", "feed_end",
                                         "interpolate_job", "interpolate",
                                         "interpolate_react"}}

\* C17: a RatReconst flagged DELETE by get_early_results() is destroyed only in
\* a step taken while no feed or interpolate task is queued or running, and no
\* task ever holds a reference to a destroyed object.
C17_DestroyedWhenQuiet ==
  [][\A f \in Functions :
       status'[f] = "ERASED" =>
         /\ InterpolateTasksOn(f)' = {}
         /\ status[f] # "ERASED" => RecTasks = {} /\ tasks = <<>> /\ AllIdle]_vars

\* a function read by get_early_results() was destroyed at a new prime field,
\* and the other function is fed and interpolated afterwards
C17_Witness ==
  /\ \E f \in Functions : status[f] = "ERASED"
  /\ \E f \in Functions : status[f] = "RECONSTRUCTING" /\ InterpolateTasksOn(f) # {}
  /\ spc \notin {"finished", "destroyed"}

\* the interpolation state of the RatReconst of one variable
UniCore(r) ==
  <<r.done, r.prime_number, r.new_prime, r.ti, r.ai, r.max_deg_num, r.num_eqn,
    r.combined_ni, r.combined_di, r.combined_prime, r.g_ni, r.g_di, r.coef_mat>>
IsThree(r) == r.bb = [num |-> 3, den |-> 1]

\* C20 as stated: the constant 3 is Done while the prime counter is still 0,
\* with numerator 3/1 and denominator 1/1, after exactly 2 probes.
C20_DoneInFirstPrime ==
  IsThree(uni) /\ uni.done =>
    /\ uni.prime_number = 0
    /\ uni.used = 2
    /\ uni.g_ni = <<[numerator |-> 3, denominator |-> 1]>>
    /\ uni.g_di = <<[numerator |-> 1, denominator |-> 1]>>

\* C20: the constant 3 is Done when the prime counter is 1, with numerator 3/1
\* and denominator 1/1, after exactly 3 probes have been interpolated, two of
\* the first prime field and one of the second; it is not Done before.
C20_DoneInSecondPrime ==
  IsThree(uni) =>
    /\ uni.done => /\ uni.prime_number = 1 /\ uni.field = 1
                   /\ uni.used = 3
                   /\ uni.g_ni = <<[numerator |-> 3, denominator |-> 1]>>
                   /\ uni.g_di = <<[numerator |-> 1, denominator |-> 1]>>
    /\ uni.used < 3 => ~uni.done
    /\ uni.used >= 2 => uni.prime_number >= 1

\* the constant 3 is Done
C20_Witness == IsThree(uni) /\ uni.done /\ uni.used = 3

\* C15: interpolating a probe whose t the function has already interpolated in
\* this prime field leaves the interpolation state as it was.
C15_DuplicateSkipped ==
  [][(/\ uni.queue # <<>>
      /\ Head(uni.queue).t \in uni.seen
      /\ uni'.taken = uni.taken + 1) => UniCore(uni') = UniCore(uni)]_vars

\* the state files as the interrupted run left them, and the resumed run on
PrimeResumed == resume_prime_it(resume.stored)
FilesAsLeft == \A f \in Functions : resume.stored[f] = resume.saved_prime
Resumed == resume.resume_from_state /\ spc # "exit_failure"
\* where the resumed scheduler is before it has entered the prime field behind
\* the saved one
BeforeNextPrime == {"reconstruct", "run_until_done", "kill_all", "kill_all_wait", "next_prime"}

\* C19: whenever resume_from_saved_state has been handed a state file whose
\* stored prime lies further from the prime the run resumes in than there are
\* primes left, it has refused: the process has exited and nothing is resumed.
C19_RefusesPrimeOutOfReach ==
  (/\ resume.resume_from_state
   /\ \E f \in Functions : resume.stored[f] - PrimeResumed > MaxPrimes - 1 - PrimeResumed)
  => spc = "exit_failure"

\* C18: a Reconstructor that resumes from what a run interrupted by an
\* exception in a new-prime transition has left goes on behind the saved prime
\* field: no probe is started in the saved field or below, the functions that
\* were done stay as saved, no function falls back, the scheduler never finds
\* itself with nothing to feed, some thread can take a step as long as
\* reconstruct() has not returned, and when it returns before the primes are
\* used up every function is Done.
C18_ResumeContinues ==
  (Resumed /\ FilesAsLeft) =>
    /\ spc # "finished" => ENABLED NextResume
    /\ prime_it >= resume.saved_prime
    /\ spc \notin BeforeNextPrime => prime_it > resume.saved_prime
    /\ \A f \in Functions :
         /\ resume.files[f].done => status[f] = "DONE" /\ rec[f] = resume.files[f]
         /\ rec[f].prime_number >= resume.files[f].prime_number
    /\ spc \notin {"attempt_to_continue", "resume_in_field"}
    /\ (spc = "finished" /\ prime_it < prime_counter) =>
          \A f \in Functions : status[f] = "DONE" /\ rec[f].done

\* a resumed run has returned with every function Done, one of them
\* reconstructed after the resumption
C18_Witness ==
  /\ Resumed /\ FilesAsLeft
  /\ spc = "finished" /\ prime_it < prime_counter
  /\ \A f \in Functions : status[f] = "DONE"
  /\ \E f \in Functions : ~resume.files[f].done /\ rec[f].done

\* ---------------------------------------------------------------- indices
RECURSIVE Flatten(_)
Flatten(ss) == IF ss = <<>> THEN <<>> ELSE Head(ss) \o Flatten(Tail(ss))
NoDuplicates(s) == Cardinality(Range(s)) = Len(s)

\* the indices of the probes under way: in requested_probes, under evaluation,
\* in computed_probes, in a feed_job that is queued or has not yet looked its
\* probes up in index_map
Outstanding ==
  [j \in DOMAIN requested_probes |-> requested_probes[j].ind]
    \o Flatten([w \in 1..thr_n |-> IF wk[w].pc \in {"compute_probe", "feed_job"}
                                    THEN wk[w].indices ELSE <<>>])
    \o Flatten(computed_probes)
    \o Flatten([j \in DOMAIN tasks |-> IF tasks[j].kind = "feed_job"
                                        THEN tasks[j].indices ELSE <<>>])

\* C21: whenever a step is taken, the indices of the probes under way
\* (requested, under evaluation, computed, handed to a feed_job that has not
\* yet looked them up) are pairwise different and present in index_map, and
\* the step leaves the (t, zi_order) of every index that stays in index_map as
\* queue_probes has entered it.
C21_IndexJoin ==
  [][/\ NoDuplicates(Outstanding)
     /\ Range(Outstanding) \subseteq DOMAIN index_map
     /\ \A i \in DOMAIN index_map \cap DOMAIN index_map' :
          index_map'[i] = index_map[i]]_vars

\* a probe computed by a worker waits for the scheduler while others are
\* requested, and a feed_job looks its probes up
C21_Witness ==
  /\ computed_probes # <<>>
  /\ requested_probes # <<>>
  /\ \E w \in Threads : wk[w].pc = "feed_job"

\* ------------------------------------------------------- jobs in flight
\* the feed_job and interpolate_job tasks in the deque or run by a worker
QueuedOf(kind) == Cardinality({j \in DOMAIN tasks : tasks[j].kind = kind})
FeedInFlight ==
  QueuedOf("feed_job")
    + Cardinality({w \in Threads : wk[w].pc \in {"feed_job", "feed_rec", "feed", "feed_end"}})
InterpolateInFlight ==
  QueuedOf("interpolate_job")
    + Cardinality({w \in Threads :
                     wk[w].pc \in {"interpolate_job", "interpolate", "interpolate_react"}})

\* C22: feed_jobs and interpolate_jobs are never smaller than the number of
\* feed_job and interpolate_job tasks queued or running; so when the
\* scheduler, under feed_control, finds both at zero, no such task is queued
\* or running.
C22_CountersCoverJobs ==
  /\ feed_jobs >= FeedInFlight
  /\ interpolate_jobs >= InterpolateInFlight
  /\ (spc = "wait_feed" /\ feed_jobs = 0 /\ interpolate_jobs = 0)
       => FeedInFlight = 0 /\ InterpolateInFlight = 0

\* the scheduler has found both counters at zero after jobs have run, while a
\* worker is still busy with something else
C22_Witness ==
  /\ spc = "tp_wait"
  /\ feed_jobs = 0 /\ interpolate_jobs = 0
  /\ \E f \in Functions : rec[f].got > 0 \/ rec[f].new_prime
  /\ ~all_threads_idle

\* ------------------------------------------------------ waiting in get_probe
\* the scheduler is inside get_probe, in the wait on condition_future
WaitsForProbe == spc \in {"get_probe", "first_get_probe"} /\ computed_probes = <<>>
\* a step of a worker thread
WorkerStep ==
  \E w \in Threads :
    \/ WorkerTake(w) \/ GetJob(w) \/ ComputeProbe(w)
    \/ FeedJob(w) \/ FeedRec(w) \/ Feed(w) \/ FeedEnd(w)
    \/ InterpolateJob(w) \/ Interpolate(w) \/ InterpolateReact(w)

\* C23: whenever the scheduler waits in get_probe for a computed probe, some
\* probe is under way to it (a worker evaluates the black box, or a probe is
\* requested and a get_job that will take it is queued or running), and a
\* worker thread can take its next step.
C23_GetProbeServed ==
  WaitsForProbe =>
    /\ \/ \E w \in Threads : wk[w].pc = "compute_probe"
       \/ requested_probes # <<>> /\ PendingGetJobs > 0
    /\ ENABLED WorkerStep

\* the scheduler waits while the only probes under way are still requested
\* and their get_job tasks stand behind an interpolate_job in the deque
C23_Witness ==
  /\ spc = "get_probe" /\ computed_probes = <<>>
  /\ \A w \in Threads : wk[w].pc # "compute_probe"
  /\ requested_probes # <<>>
  /\ tasks # <<>> /\ Head(tasks).kind = "interpolate_job"

\* ------------------------------------------------------ attempt_to_continue
\* the probe bookkeeping that queue_probes works on
ProbeBooks ==
  [chosen_t |-> chosen_t, requested_probes |-> requested_probes, index_map |-> index_map,
   ind |-> ind, probes_queued |-> probes_queued, tasks |-> tasks, used_t |-> used_t,
   issued_t |-> issued_t, repeats |-> repeats, reused_now |-> reused_now]

\* queue_probes(zi_order, to_start) as a function of the bookkeeping q
queue_probes_on(q, zi_order, ts) ==
  LET ones == ones_to_front(zi_order)
      k == Len(ts)
      new == [j \in 1..k |-> [ind |-> q.ind + j - 1, prime |-> prime_it,
                              anchor |-> anchor_prime]]
  IN [chosen_t |-> [q.chosen_t EXCEPT ![zi_order] = @ \cup Range(ts)],
      requested_probes |-> IF ones THEN Reverse(new) \o q.requested_probes
                           ELSE q.requested_probes \o new,
      index_map |-> q.index_map @@ [i \in q.ind..(q.ind + k - 1) |->
                                      [t |-> ts[i - q.ind + 1], zi_order |-> zi_order]],
      ind |-> next_ind(q.ind, k),
      probes_queued |-> q.probes_queued + k,
      tasks |-> q.tasks \o [j \in 1..JobsFor(k) |-> Task("get_job", 0, <<>>)],
      used_t |-> [q.used_t EXCEPT ![zi_order] = @ \cup Range(ts)],
      issued_t |-> [q.issued_t EXCEPT ![zi_order] = @ \cup Range(ts)],
      repeats |-> q.repeats + Repeated(ts, q.used_t[zi_order]),
      reused_now |-> (q.reused_now \/ Repeated(ts, q.issued_t[zi_order]) > 0)]

\* the calls of queue_probes of one attempt_to_continue(), one after the other
RECURSIVE queue_all(_, _)
queue_all(q, plans) ==
  IF plans = <<>> THEN {q}
  ELSE LET p == Head(plans)
       IN UNION {queue_all(queue_probes_on(q, p.zi_order, ts), Tail(plans)) :
                   ts \in AcceptedDraws(p.to_start, q.chosen_t[p.zi_order],
                                        q.used_t[p.zi_order], q.repeats)}

\* if (std::get<1>(rec) == DONE) ++items_done_tmp;
counted_done(st) == st = "DONE"

\* the body of the loop of attempt_to_continue() for the entry f of reconst;
\* c holds the locals and what the loop has changed so far
continue_one(c, f) ==
  IF c.status[f] = "ERASED" THEN c
  ELSE IF counted_done(c.status[f]) THEN [c EXCEPT !.items_done_tmp = @ + 1]
  ELSE IF c.status[f] # "RECONSTRUCTING" THEN c
  ELSE IF c.rec[f].done
  THEN [c EXCEPT !.items_done_tmp2 = @ + 1, !.status[f] = "DONE"]
  ELSE IF c.rec[f].prime_number # prime_it
  THEN [c EXCEPT !.items_new_prime_tmp = @ + 1]
  ELSE LET r == interpolate_all(c.rec[f], f)
           c1 == [c EXCEPT !.rec[f] = r,
                           !.interpolated = @ + (IF c.rec[f].queue # <<>> THEN 1 ELSE 0)]
       IN IF r.done
          THEN [c1 EXCEPT !.status[f] = "DONE", !.items_done_tmp2 = @ + 1]
          ELSE IF r.prime_number > prime_it
          THEN [c1 EXCEPT !.items_new_prime_tmp2 = @ + 1,
                          !.probes_for_next_prime = Max2(@, get_num_eqn(r, f))]
          ELSE IF prime_it # 0
          THEN LET need == get_needed_feed_vec(r, f)[1]
                   zi == need.zi_order
               IN IF need.count = 0 THEN c1
                  ELSE IF zi \in DOMAIN c1.started_probes
                  THEN IF need.count > c1.started_probes[zi]
                       THEN [c1 EXCEPT
                               !.plans = Append(@, [zi_order |-> zi,
                                                    to_start |-> need.count - c1.started_probes[zi]]),
                               !.started_probes[zi] = need.count]
                       ELSE c1
                  ELSE [c1 EXCEPT
                          !.plans = Append(@, [zi_order |-> zi, to_start |-> need.count]),
                          !.started_probes = Emplace(@, zi, need.count)]
          ELSE LET next == get_zi_orders(r, f)
                   o == next.orders[1]
                   zi == o.zi_order
               IN IF Len(next.orders) = 1 /\ zi = Ones
                  THEN IF zi \in DOMAIN c1.started_probes THEN c1
                       ELSE [c1 EXCEPT
                               !.balance_of_ones = 0,
                               !.plans = Append(@, [zi_order |-> zi, to_start |-> thr_n]),
                               !.started_probes = AddTo(@, zi, thr_n)]
                  ELSE IF zi \in DOMAIN c1.started_probes
                  THEN IF next.system_size > c1.started_probes[zi]
                       THEN LET to_start == Min2(next.system_size - c1.started_probes[zi],
                                                 o.count)
                            IN [c1 EXCEPT
                                  !.plans = Append(@, [zi_order |-> zi, to_start |-> to_start]),
                                  !.started_probes[zi] = @ + to_start]
                       ELSE c1
                  ELSE [c1 EXCEPT
                          !.plans = Append(@, [zi_order |-> zi, to_start |-> o.count]),
                          !.started_probes = Emplace(@, zi, o.count)]

\* for (auto & rec : reconst) of attempt_to_continue()
RECURSIVE continue_loop(_, _)
continue_loop(c, fs) ==
  IF fs = {} THEN c ELSE continue_loop(continue_one(c, Min(fs)), fs \ {Min(fs)})

\* the locals of attempt_to_continue() before its loop: started_probes has
\* been moved into started_probes_copy and is empty
continue_start ==
  [status |-> status, rec |-> rec, started_probes |-> EmptyMap,
   balance_of_ones |-> balance_of_ones, probes_for_next_prime |-> probes_for_next_prime,
   items_done_tmp |-> 0, items_done_tmp2 |-> 0, items_new_prime_tmp |-> 0,
   items_new_prime_tmp2 |-> 0, interpolated |-> 0, plans |-> <<>>]

\* attempt_to_continue() that returns to the loop where the code throws
continue_stuck_goes_on(sp) == FALSE

\* if (started_probes.size() == 0) throw std::runtime_error("Cannot continue");
continue_stuck(sp) == DOMAIN sp = {}

\* started_probes behind the last else of attempt_to_continue()
continue_started(sp, copy) ==
  IF Ones \in DOMAIN sp /\ Cardinality(DOMAIN sp) = 1
  THEN IF Ones \in DOMAIN copy THEN [copy EXCEPT ![Ones] = sp[Ones]] ELSE copy
  ELSE Emplace(sp, Ones, 0)

\* run_until_done with nothing left to feed: attempt_to_continue() recounts
\* items_done and items_new_prime over reconst, uses the probes stored in the
\* functions, queues what they still need, and either flags done or new_prime,
\* throws "Cannot continue", or goes on with the loop
AttemptToContinue ==
  /\ spc = "attempt_to_continue"
  /\ LET c == continue_loop(continue_start, Functions)
         idn == IF items_done # c.items_done_tmp \/ c.items_done_tmp2 # 0
                THEN c.items_done_tmp + c.items_done_tmp2 ELSE items_done
         inp == IF items_new_prime # c.items_new_prime_tmp \/ c.items_new_prime_tmp2 # 0
                THEN c.items_new_prime_tmp + c.items_new_prime_tmp2 ELSE items_new_prime
     IN /\ status' = c.status
        /\ rec' = c.rec
        /\ balance_of_ones' = c.balance_of_ones
        /\ probes_for_next_prime' = c.probes_for_next_prime
        /\ items_done' = idn
        /\ items_new_prime' = inp
        /\ \E q \in queue_all(ProbeBooks, c.plans) :
             /\ chosen_t' = q.chosen_t
             /\ requested_probes' = q.requested_probes
             /\ index_map' = q.index_map
             /\ ind' = q.ind
             /\ probes_queued' = q.probes_queued
             /\ tasks' = q.tasks
             /\ used_t' = q.used_t
             /\ issued_t' = q.issued_t
             /\ repeats' = q.repeats
             /\ reused_now' = q.reused_now
        /\ IF idn = items
           THEN /\ done' = TRUE /\ new_prime' = new_prime
                /\ started_probes' = c.started_probes
                /\ spc' = LoopHead(TRUE, new_prime)
           ELSE IF idn + inp = items
           THEN /\ done' = done /\ new_prime' = TRUE
                /\ started_probes' = c.started_probes
                /\ spc' = LoopHead(done, TRUE)
           ELSE IF continue_stuck(c.started_probes)
           THEN /\ UNCHANGED <<done, new_prime>>
                /\ started_probes' = c.started_probes
                /\ spc' = "cannot_continue"
           ELSE /\ UNCHANGED <<done, new_prime>>
                /\ started_probes' = continue_started(c.started_probes, started_probes)
                /\ spc' = LoopHead(done, new_prime)
  /\ acc' = queue_probes_acc("scheduler") \cup {Access("started_probes", {}, "scheduler")}
  /\ UNCHANGED <<extVars, confVars, scanVars, threads_idle, wk, prime_it, items, jobVars,
                 computed_probes, fieldVars>>

\* a resumed run in which get_early_results() is called from another thread
\* and run_until_done gets to attempt_to_continue()
NextContinue ==
  \/ GetEarlyResults
  \/ AttemptToContinue
  \/ NextResume

SpecContinue == InitResume /\ [][NextContinue]_vars

\* the functions whose reconstruction has finished: DONE, or flagged DELETE by
\* get_early_results, or erased by clean_reconst
Finished == {f \in Functions : status[f] \in {"DONE", "DELETE", "ERASED"}}

\* the completion tests of the scheduler: in the loop of run_until_done, behind
\* tp.wait(), and at the end of attempt_to_continue()
AtCompletionTest == spc \in {"check_status", "tp_wait", "cannot_continue"}

\* C24: at every completion test of the scheduler, items_done is the number of
\* functions that have finished, those read by get_early_results or removed by
\* clean_reconst included, and items_done = items exactly when all have finished
C24_ItemsDoneCountsFinished ==
  AtCompletionTest =>
     /\ items_done = Cardinality(Finished)
     /\ (items_done = items) <=> (Finished = Functions)

RECURSIVE SumLen(_)
SumLen(ss) == IF ss = <<>> THEN 0 ELSE Len(Head(ss)) + SumLen(Tail(ss))

\* the probes queued and not yet taken by get_probe: requested, under
\* evaluation in compute_probe, or computed
ProbesUnderWay ==
  Len(requested_probes)
    + SumLen([w \in 1..thr_n |-> IF wk[w].pc = "compute_probe" THEN wk[w].indices ELSE <<>>])
    + SumLen(computed_probes)

Acq(m) == [op |-> "acq", m |-> m]
Rel(m) == [op |-> "rel", m |-> m]

\* queue_probes: chosen_t under chosen_mutex, the probe under
\* mutex_probe_queue, then tp.run_task
queue_probes_locks ==
  <<Acq("chosen_mutex"), Rel("chosen_mutex"), Acq("mutex_probe_queue"),
    Rel("mutex_probe_queue"), Acq("pool_mutex"), Rel("pool_mutex")>>

\* get_probe: the wait on condition_future, then probes_queued
get_probe_locks ==
  <<Acq("future_control"), Rel("future_control"), Acq("future_control"),
    Rel("future_control"), Acq("mutex_probe_queue"), Rel("mutex_probe_queue")>>

\* the loop of run_until_done from the progress message to the test of
\* items_done
run_until_done_feed_locks ==
  <<Acq("print_control"), Rel("print_control"), Acq("feed_control"), Rel("feed_control"),
    Acq("pool_mutex"), Rel("pool_mutex"), Acq("status_control"), Rel("status_control")>>

\* the loop of run_until_done with probes_queued == 0: the wait on
\* condition_feed with its look at probes_queued, then mutex_probe_queue is
\* locked while feed_control is held, tp.wait() and the test of items_done
run_until_done_wait_locks ==
  <<Acq("mutex_probe_queue"), Rel("mutex_probe_queue"), Acq("feed_control"),
    Rel("feed_control"), Acq("feed_control"),
    Rel("feed_control"), Acq("mutex_probe_queue"), Rel("mutex_probe_queue"),
    Acq("feed_control"),
    Acq("mutex_probe_queue"), Rel("mutex_probe_queue"), Rel("feed_control"),
    Acq("pool_mutex"), Rel("pool_mutex"), Acq("status_control"), Rel("status_control")>>

\* the same loop left by its break: feed_control is not held any more
run_until_done_break_locks ==
  <<Acq("mutex_probe_queue"), Rel("mutex_probe_queue"), Acq("feed_control"),
    Rel("feed_control"), Acq("feed_control"),
    Rel("feed_control"), Acq("mutex_probe_queue"), Rel("mutex_probe_queue"),
    Acq("mutex_probe_queue"), Rel("mutex_probe_queue")>>

\* a new prime: tp.kill_all(), clean_reconst(), then queue_probes and
\* started_probes
next_prime_locks ==
  <<Acq("pool_mutex"), Rel("pool_mutex"), Acq("clean"), Rel("clean")>>
    \o queue_probes_locks

\* queue_new_ones: queue_probes, then started_probes under job_control
queue_new_ones_locks == queue_probes_locks \o <<Acq("job_control"), Rel("job_control")>>

\* a thread of the pool between two tasks
pool_thread_locks == <<Acq("pool_mutex"), Rel("pool_mutex")>>

\* get_job and compute_probe
get_job_locks ==
  <<Acq("mutex_probe_queue"), Rel("mutex_probe_queue"), Acq("future_control"),
    Rel("future_control")>>

\* feed_job that keeps mutex_probe_queue locked until it returns
feed_job_locks_nested ==
  <<Acq("feed_control"), Rel("feed_control"), Acq("mutex_probe_queue"),
    Acq("job_control"), Rel("job_control"), Acq("pool_mutex"), Rel("pool_mutex"),
    Acq("status_control"), Acq("print_control"), Rel("print_control"),
    Rel("status_control"), Acq("feed_control"), Rel("feed_control"),
    Rel("mutex_probe_queue")>>

\* feed_job: interpolate_jobs, index_map, balance_of_ones, run_priority_task,
\* the message under status_control and print_control, then the counters
feed_job_locks ==
  <<Acq("feed_control"), Rel("feed_control"), Acq("mutex_probe_queue"),
    Rel("mutex_probe_queue"), Acq("job_control"), Rel("job_control"),
    Acq("pool_mutex"), Rel("pool_mutex"),
    Acq("status_control"), Acq("print_control"), Rel("print_control"),
    Rel("status_control"), Acq("feed_control"), Rel("feed_control")>>

\* interpolate_job of a function that needs the next prime
interpolate_job_new_prime_locks ==
  <<Acq("status_control"), Rel("status_control"), Acq("job_control"), Rel("job_control"),
    Acq("feed_control"), Rel("feed_control")>>

\* interpolate_job that starts probes: started_probes under job_control, the
\* message under print_control, queue_probes
interpolate_job_queue_locks ==
  <<Acq("job_control"), Rel("job_control"), Acq("print_control"), Rel("print_control")>>
    \o queue_probes_locks \o <<Acq("feed_control"), Rel("feed_control")>>

\* interpolate_job of a function that is done
interpolate_job_done_locks ==
  <<Acq("status_control"), Rel("status_control"), Acq("feed_control"), Rel("feed_control")>>

\* get_early_results
get_early_results_locks == <<Acq("clean"), Rel("clean")>>

LockSections ==
  [queue_probes |-> queue_probes_locks,
   get_probe |-> get_probe_locks,
   run_until_done_feed |-> run_until_done_feed_locks,
   run_until_done_wait |-> run_until_done_wait_locks,
   run_until_done_break |-> run_until_done_break_locks,
   next_prime |-> next_prime_locks,
   queue_new_ones |-> queue_new_ones_locks,
   pool_thread |-> pool_thread_locks,
   get_job |-> get_job_locks,
   feed_job |-> feed_job_locks,
   interpolate_job_new_prime |-> interpolate_job_new_prime_locks,
   interpolate_job_queue |-> interpolate_job_queue_locks,
   interpolate_job_done |-> interpolate_job_done_locks,
   get_early_results |-> get_early_results_locks]

\* the scheduler thread, the threads of the pool, and the thread that calls
\* get_early_results
LockWorkers == IF thr_n > 1 THEN {"worker1", "worker2"} ELSE {"worker1"}
LockThreads == {"scheduler", "user"} \cup LockWorkers

SectionsOf(t) ==
  IF t = "scheduler"
  THEN {"queue_probes", "get_probe", "run_until_done_feed", "run_until_done_wait",
        "run_until_done_break", "next_prime", "queue_new_ones"}
  ELSE IF t = "user" THEN {"get_early_results"}
  ELSE {"pool_thread", "get_job", "feed_job", "interpolate_job_new_prime",
        "interpolate_job_queue", "interpolate_job_done"}

\* what thread t does next
NextOp(t) == LockSections[lk.at[t].sec][lk.at[t].pc]

Advance(t) ==
  IF lk.at[t].pc = Len(LockSections[lk.at[t].sec]) THEN Outside
  ELSE [lk.at[t] EXCEPT !.pc = @ + 1]

\* a thread enters one of its functions
LockBegin(t) ==
  /\ lk.at[t] = Outside
  /\ \E s \in SectionsOf(t) : lk' = [lk EXCEPT !.at[t] = [sec |-> s, pc |-> 1]]
  /\ UNCHANGED <<runVars, poolVars, pool, aborted, uni, multi>>

\* std::mutex::lock: the thread gets the mutex when it is free
LockAcquire(t) ==
  /\ lk.at[t] # Outside
  /\ NextOp(t).op = "acq"
  /\ lk.owner[NextOp(t).m] = "free"
  /\ lk' = [lk EXCEPT !.owner[NextOp(t).m] = t, !.at[t] = Advance(t)]
  /\ UNCHANGED <<runVars, poolVars, pool, aborted, uni, multi>>

\* std::mutex::unlock
LockRelease(t) ==
  /\ lk.at[t] # Outside
  /\ NextOp(t).op = "rel"
  /\ lk' = [lk EXCEPT !.owner[NextOp(t).m] = "free", !.at[t] = Advance(t)]
  /\ UNCHANGED <<runVars, poolVars, pool, aborted, uni, multi>>

NextLocks ==
  \/ \E t \in LockThreads : LockBegin(t)
  \/ \E t \in LockThreads : LockAcquire(t)
  \/ \E t \in LockThreads : LockRelease(t)

SpecLocks == Init /\ [][NextLocks]_vars

\* the thread whose mutex thread t waits for, "free" when t does not wait
WaitsOn(t) ==
  IF t = "free" \/ lk.at[t] = Outside THEN "free"
  ELSE IF NextOp(t).op = "acq" THEN lk.owner[NextOp(t).m] ELSE "free"

\* thread t waits for a mutex that thread u holds
WaitsFor(t, u) == WaitsOn(t) = u

\* threads waiting for each other's mutexes in a cycle (a thread that locks a
\* mutex it holds waits for itself)
CyclicWait ==
  \E t \in LockThreads :
    LET w1 == WaitsOn(t)
        w2 == WaitsOn(w1)
        w3 == WaitsOn(w2)
        w4 == WaitsOn(w3)
    IN t \in {w1, w2, w3, w4}

\* the mutexes a thread holds
HeldBy(t) == {m \in Mutexes : lk.owner[m] = t}

\* the pairs (a, b) such that some thread holds a and is about to lock b
NestedNow ==
  UNION {IF lk.at[t] # Outside /\ NextOp(t).op = "acq"
         THEN {<<a, NextOp(t).m>> : a \in HeldBy(t)} ELSE {} : t \in LockThreads}

\* the nested orders the code has: feed_control before mutex_probe_queue in
\* run_until_done, status_control before print_control in feed_job
LockOrder == {<<"feed_control", "mutex_probe_queue">>, <<"status_control", "print_control">>}

\* C27: the scheduler thread and the worker tasks never acquire the mutexes in
\* conflicting nested orders: every nested acquisition follows one order
\* without a cycle, a thread never locks a mutex it holds, and no state has
\* threads waiting for each other's mutexes in a cycle
C27_NoCyclicWait ==
  /\ ~CyclicWait
  /\ \A e \in NestedNow : e \in LockOrder /\ <<e[2], e[1]>> \notin LockOrder

\* the scheduler holds feed_control and mutex_probe_queue at once while a
\* worker inside feed_job waits for feed_control with its message printed
C27_Witness ==
  /\ HeldBy("scheduler") = {"feed_control", "mutex_probe_queue"}
  /\ lk.at["worker1"].sec = "feed_job"
  /\ WaitsFor("worker1", "scheduler")

\* an interpolation of function f is running, or an interpolate_job for f is
\* in the deque of the pool or has been taken by a thread
InterpolateRunning(f) == \E w \in Threads : wk[w].pc = "interpolate" /\ wk[w].f = f
InterpolateScheduled(f) ==
  \/ \E j \in DOMAIN tasks : tasks[j].kind = "interpolate_job" /\ tasks[j].f = f
  \/ \E w \in Threads : wk[w].pc = "interpolate_job" /\ wk[w].f = f

\* C28 as stated: a probe that feed has put into the queue of a function does
\* not stay there with no interpolation of that function running or scheduled
C28_NoProbeLeftInQueue ==
  \A f \in DOMAIN rec :
    rec[f].queue # <<>> => InterpolateRunning(f) \/ InterpolateScheduled(f)

\* tp.kill_all() has emptied the deque at the end of the prime field or of
\* the run
TasksKilled == spc \in {"kill_all_wait", "exit_reset", "next_prime", "finished"}

\* C28, for the functions under reconstruction: until tp.kill_all() empties
\* the deque, a probe in the queue of a function with status RECONSTRUCTING has
\* an interpolation of that function running or scheduled, and a worker can
\* take its next step; is_interpolating is raised only while a thread is
\* inside interpolate().  (A probe fed to a function that was finished
\* meanwhile stays in its queue.)
C28_NoLostHandOff ==
  \A f \in DOMAIN rec :
    /\ rec[f].is_interpolating <=> InterpolateRunning(f)
    /\ (rec[f].queue # <<>> /\ status[f] = "RECONSTRUCTING" /\ ~TasksKilled) =>
         /\ InterpolateRunning(f) \/ InterpolateScheduled(f)
         /\ ENABLED WorkerStep

\* a probe is fed while another thread interpolates the same function: the
\* probe waits in the queue, is_interpolating is raised, and the
\* interpolate_job of the feeder is in the deque
C28_Witness ==
  \E f \in DOMAIN rec :
    /\ rec[f].queue # <<>>
    /\ status[f] = "RECONSTRUCTING"
    /\ rec[f].is_interpolating
    /\ \E j \in DOMAIN tasks : tasks[j].kind = "interpolate_job" /\ tasks[j].f = f

\* C29: a probe is used only in the prime field it was fed for.  Every probe
\* in the queue of a function, and the probe a thread has taken from it, was
\* fed for the prime field the function is in; a feed is accepted only from a
\* feed_job of the scheduler's prime field and only when the function is in
\* that field; and the step in which a function goes on to the next prime
\* field empties its queue and saved_ti
C29_ProbesOfOwnPrime ==
  [][\A f \in DOMAIN rec' :
       /\ \A j \in DOMAIN rec'[f].queue : rec'[f].queue[j].prime = rec'[f].prime_number
       /\ \A w \in Threads :
            (wk'[w].pc = "interpolate" /\ wk'[w].f = f)
               => wk'[w].food.prime = rec'[f].prime_number
       /\ (f \in DOMAIN rec /\ rec'[f].prime_number # rec[f].prime_number) =>
            /\ rec'[f].queue = <<>>
            /\ \A z \in ZiOrders : rec'[f].saved_ti[z] = 0
       /\ (f \in DOMAIN rec /\ Len(rec'[f].queue) > Len(rec[f].queue)) =>
            /\ rec[f].prime_number = prime_it
            /\ \E w \in Threads : wk[w].pc = "feed" /\ wk[w].idx = f /\ wk[w].tag = prime_it
  ]_vars

\* a function has gone on to the next prime field while a feed_job of the
\* field it has left is about to feed it: the feed is not accepted
C29_Witness ==
  \E f \in DOMAIN rec : \E w \in Threads :
    /\ wk[w].pc = "feed" /\ wk[w].idx = f
    /\ rec[f].prime_number > prime_it
    /\ rec[f].queue = <<>>

\* ------------------------------------------------- RatReconst, fed by hand
\* how many probes a function holds at most in its queue and in saved_ti
MaxStored == 3

Stored(r) == Len(r.queue) + r.saved_ti[1] + r.saved_ti[2]

\* feed(new_ti, num, feed_zi_ord, fed_prime) called for function f with a
\* zi_order of the caller's choice, in the prime field of the function or in
\* the one before
FeedAny(f, z, p) ==
  /\ ~rec[f].done
  /\ rec[f].prime_number < prime_counter
  /\ Stored(rec[f]) < MaxStored
  /\ rec' = [rec EXCEPT ![f] = feed(@, <<z>>, p)]
  /\ rec'[f] # rec[f]
  /\ UNCHANGED <<extVars, confVars, scanVars, poolVars, spc, ctrlVars, itemVars, jobVars,
                 probeVars, startVars, computed_probes, status, fieldVars, acc>>

\* interpolate() called for function f: one round of its loop over the queue
InterpolateAny(f) ==
  /\ rec[f].queue # <<>>
  /\ \E guess \in Guesses(rec[f], Head(rec[f].queue).zi) :
       rec' = [rec EXCEPT ![f] = interpolate_one([@ EXCEPT !.queue = Tail(@)], f,
                                                 Head(rec[f].queue).zi, guess)]
  /\ UNCHANGED <<extVars, confVars, scanVars, poolVars, spc, ctrlVars, itemVars, jobVars,
                 probeVars, startVars, computed_probes, status, fieldVars, acc>>

NextFeed ==
  \/ \E f \in Functions, z \in ZiOrders, p \in 0..prime_counter : FeedAny(f, z, p)
  \/ \E f \in Functions : InterpolateAny(f)

SpecFeed == Init /\ [][NextFeed]_vars

\* C30: a probe whose zi_order is not the current one of the function is not
\* discarded but counted in saved_ti under its zi_order, and nothing else of
\* the function changes; when a zi_order becomes the current one within a
\* prime field, the probes saved under it are all consumed by the same call
\* of interpolate(); after every call nothing is left in saved_ti under the
\* current zi_order
C30_BufferedThenConsumed ==
  [][\A f \in Functions :
       LET r == rec[f]
           zi == Head(r.queue).zi
       IN /\ (Len(rec'[f].queue) < Len(r.queue) /\ ~r.done /\ zi # r.curr_zi_order) =>
               rec'[f] = [r EXCEPT !.queue = Tail(@), !.saved_ti[zi] = @ + 1]
          /\ (/\ rec'[f].curr_zi_order # r.curr_zi_order
              /\ rec'[f].prime_number = r.prime_number
              /\ ~rec'[f].done) =>
               /\ rec'[f].got = r.saved_ti[rec'[f].curr_zi_order]
               /\ rec'[f].saved_ti[rec'[f].curr_zi_order] = 0
          /\ ~rec'[f].done => rec'[f].saved_ti[rec'[f].curr_zi_order] = 0
  ]_vars

\* a function about to go on to zi_order 2 with a probe saved under it, fed
\* while zi_order 1 was the current one and both probes were of its own prime
C30_Witness ==
  \E f \in Functions :
    /\ ~rec[f].done
    /\ rec[f].curr_zi_order = 1
    /\ rec[f].saved_ti[2] > 0
    /\ rec[f].queue # <<>>
    /\ Head(rec[f].queue).zi = 1
    /\ rec[f].got + 1 = NumEqn(f, 1)
    /\ LastOrder(f) = 2
    /\ deg > 1

\* ------------------------------------------ RatReconst of several variables
\* how many probes the Thiele interpolation of the first prime takes at most
MaxThiele == 3
\* how many times the shift is redrawn at most
MaxRedraws == 2
\* the number of equations of a Gauss system (num_eqn after the first Thiele
\* interpolation)
MultiEqn == 2
\* curr_zi_order.clear()
NoOrder == 0

\* what the black box decides in one call of interpolate(new_ti, num,
\* feed_zi_ord): whether the Thiele interpolation reproduces num (check),
\* whether the denominator found has no constant term, and whether the
\* rational function guessed from the primes so far reproduces num
Outcomes == [check : BOOLEAN, no_const : BOOLEAN, guess : BOOLEAN]

HeldProbes(m) ==
  Len(m.computing) + Len(m.queue)
    + SumLen([i \in 1..Cardinality(DOMAIN m.saved_ti) |->
                m.saved_ti[CHOOSE z \in DOMAIN m.saved_ti :
                             Cardinality({y \in DOMAIN m.saved_ti : y < z}) = i - 1]])

\* the else branch of feed_zi_ord == curr_zi_order: the probe is kept
multi_save(m, food) ==
  IF food.zi \in DOMAIN m.saved_ti
  THEN [m EXCEPT !.saved_ti[food.zi] = Append(@, food.shift)]
  ELSE [m EXCEPT !.saved_ti = @ @@ (food.zi :> <<food.shift>>)]

\* the results of the prime field are combined: prime_number++
multi_promote(m) ==
  [m EXCEPT !.prime_number = @ + 1, !.queue = <<>>, !.saved_ti = [x \in {} |-> <<>>],
            !.curr_zi_order = Ones, !.new_prime = TRUE, !.coef_mat = <<>>]

\* a univariate system is solved: the next zi_order, or the next prime field
multi_solved(m) ==
  IF m.curr_zi_order + 1 \in ZiOrders
  THEN [m EXCEPT !.curr_zi_order = @ + 1, !.coef_mat = <<>>]
  ELSE multi_promote(m)

\* no constant term in the denominator: a new shift, the Thiele interpolation
\* starts again
multi_redraw(m) ==
  [m EXCEPT !.shift = @ + 1, !.done = FALSE, !.ti = <<>>]

\* max_deg_num == -1: one more point of the Thiele interpolation
multi_thiele(m, food, c) ==
  LET ti1 == Append(m.ti, food.shift)
  IN IF ~(Len(ti1) > 1 /\ c.check) THEN [m EXCEPT !.ti = ti1]
     ELSE IF c.no_const THEN multi_redraw([m EXCEPT !.ti = ti1])
     ELSE multi_solved([m EXCEPT !.max_deg_num = 1, !.num_eqn = MultiEqn, !.ti = <<>>])

\* the Gauss system that leaves saved_ti as it is
multi_gauss_keeping(m, food) ==
  LET all == m.coef_mat \o <<food.shift>>
  IN IF Len(all) >= m.num_eqn
     THEN multi_solved([m EXCEPT !.coef_mat = SubSeq(all, 1, m.num_eqn)])
     ELSE [m EXCEPT !.coef_mat = all]

\* the Gauss system: the probe and the probes saved for curr_zi_order, whose
\* entry is erased, as far as equations are missing
multi_gauss(m, food) ==
  LET curr == m.curr_zi_order
      saved == IF curr \in DOMAIN m.saved_ti THEN m.saved_ti[curr] ELSE <<>>
      all == m.coef_mat \o <<food.shift>> \o saved
      m1 == [m EXCEPT !.saved_ti = [z \in DOMAIN m.saved_ti \ {curr} |-> m.saved_ti[z]]]
  IN IF Len(all) >= m.num_eqn
     THEN multi_solved([m1 EXCEPT !.coef_mat = SubSeq(all, 1, m.num_eqn)])
     ELSE [m1 EXCEPT !.coef_mat = all]

\* interpolate(new_ti, num, feed_zi_ord)
multi_interpolate_food(m, food, c) ==
  IF m.done THEN m
  ELSE IF food.zi # m.curr_zi_order THEN multi_save(m, food)
  ELSE IF m.new_prime /\ c.guess
       THEN [m EXCEPT !.done = TRUE, !.new_prime = FALSE, !.num_eqn = 0,
                      !.curr_zi_order = NoOrder]
  ELSE LET m1 == [m EXCEPT !.new_prime = FALSE]
       IN IF m1.max_deg_num = -1 THEN multi_thiele(m1, food, c)
          ELSE multi_gauss(m1, food)

\* the inner loop of interpolate(): while saved_ti has an entry for
\* curr_zi_order, its last probe is taken (back(), pop_back()) and
\* interpolated; back() of an empty list is recorded in read_empty, back() of
\* any other list in read_saved
RECURSIVE multi_use_saved(_, _)
multi_use_saved(m, c) ==
  LET curr == m.curr_zi_order
  IN IF curr \notin DOMAIN m.saved_ti THEN m
     ELSE IF m.saved_ti[curr] = <<>> THEN [m EXCEPT !.read_empty = TRUE]
     ELSE LET s == m.saved_ti[curr]
              m1 == [m EXCEPT !.saved_ti[curr] = SubSeq(s, 1, Len(s) - 1),
                              !.read_saved = TRUE]
          IN multi_use_saved(
               multi_interpolate_food(m1, [zi |-> curr, shift |-> s[Len(s)]], c), c)

\* queue_probes: the values of a probe are computed with the Reconstructor's
\* shift and handed to a worker
MultiQueueProbes(z) ==
  /\ ~multi.done
  /\ multi.prime_it < prime_counter
  /\ HeldProbes(multi) < MaxStored
  /\ multi' = [multi EXCEPT !.computing =
                 Append(@, [zi |-> z, shift |-> multi.r_shift, prime |-> multi.prime_it])]
  /\ UNCHANGED <<runVars, poolVars, pool, aborted, uni, lk>>

\* feed: a worker has computed a probe and feeds it
MultiFeed(i) ==
  /\ i \in DOMAIN multi.computing
  /\ LET p == multi.computing[i]
         rest == [j \in 1..(Len(multi.computing) - 1) |->
                    multi.computing[IF j < i THEN j ELSE j + 1]]
     IN multi' = [multi EXCEPT !.computing = rest,
                               !.queue = IF p.prime = multi.prime_number
                                         THEN Append(@, [zi |-> p.zi, shift |-> p.shift])
                                         ELSE @]
  /\ UNCHANGED <<runVars, poolVars, pool, aborted, uni, lk>>

\* interpolate(): is_interpolating = true
MultiInterpolateJob ==
  /\ ~multi.interpolating
  /\ multi.queue # <<>>
  /\ multi' = [multi EXCEPT !.interpolating = TRUE]
  /\ UNCHANGED <<runVars, poolVars, pool, aborted, uni, lk>>

\* interpolate(): one round of the loop over the queue, or its end
MultiInterpolate ==
  /\ multi.interpolating
  /\ IF multi.queue = <<>>
     THEN multi' = [multi EXCEPT !.interpolating = FALSE]
     ELSE \E c \in Outcomes :
            /\ Len(multi.ti) + 1 >= MaxThiele => c.check
            /\ multi.shift > MaxRedraws => ~c.no_const
            /\ multi' = multi_use_saved(
                          multi_interpolate_food([multi EXCEPT !.queue = Tail(@)],
                                                 Head(multi.queue), c), c)
  /\ UNCHANGED <<runVars, poolVars, pool, aborted, uni, lk>>

\* the new prime of run_until_done, after the tasks were killed and the
\* workers are idle: the shift is disabled when no function needs it, and the
\* Reconstructor takes its copy
MultiNewPrime ==
  /\ multi.new_prime
  /\ multi.prime_number > multi.prime_it
  /\ multi.prime_it + 1 < prime_counter
  /\ ~multi.interpolating
  /\ \E s \in {multi.shift, NoShift} :
       multi' = [multi EXCEPT !.prime_it = @ + 1, !.computing = <<>>,
                              !.shift = s, !.r_shift = s]
  /\ UNCHANGED <<runVars, poolVars, pool, aborted, uni, lk>>

NextMulti ==
  \/ \E z \in ZiOrders : MultiQueueProbes(z)
  \/ \E i \in 1..MaxStored : MultiFeed(i)
  \/ MultiInterpolateJob
  \/ MultiInterpolate
  \/ MultiNewPrime

SpecMulti == Init /\ [][NextMulti]_vars

\* C31: after the shift was redrawn, every probe taken into the Thiele
\* interpolation that started again was evaluated with the new shift
C31_NoProbeOfOldShift ==
  \A j \in DOMAIN multi.ti : multi.ti[j] = multi.shift

\* C32: the shift changes only in the step of the new prime, taken while no
\* interpolate_job is running; every other step leaves it as it is
C32_ShiftOnlyAtNewPrime ==
  [][multi'.shift # multi.shift =>
       /\ multi'.prime_it = multi.prime_it + 1
       /\ ~multi.interpolating]_vars

\* the indices of the probes waiting in requested_probes
RequestedInd(rp) == {rp[j].ind : j \in DOMAIN rp}

\* C33 as stated: ind, the index that the next probe gets, never goes back in
\* a run, so that every new index is above all the indices given before
C33_IndexNeverGoesBack ==
  [][ind' >= ind]_vars

\* C33: between two calls of reset_new_prime() a step that queues probes gives
\* them the indices ind, ..., ind' - 1, all above every index given before in
\* that prime field; no other step adds an index; ind goes back only to 0 and
\* only together with index_map, requested_probes and computed_probes being
\* emptied
C33_IncreasingWithinPrime ==
  [][/\ ind' < ind =>
          /\ ind' = 0 /\ index_map' = EmptyMap
          /\ requested_probes' = <<>> /\ computed_probes' = <<>>
     /\ ind' > ind =>
          /\ DOMAIN index_map' \ DOMAIN index_map = ind..(ind' - 1)
          /\ RequestedInd(requested_probes') \ RequestedInd(requested_probes)
               = ind..(ind' - 1)
          /\ \A i \in DOMAIN index_map \cup RequestedInd(requested_probes) : i < ind
     /\ ind' = ind =>
          /\ DOMAIN index_map' \subseteq DOMAIN index_map
          /\ RequestedInd(requested_probes') \subseteq RequestedInd(requested_probes)]_vars

\* probes are queued in the second prime field, whose indices start at 0 again
C33_Witness ==
  /\ prime_it = 1
  /\ ind > 0
  /\ 0 \in DOMAIN index_map
  /\ requested_probes # <<>>

\* C34: a step of the scheduler that sets done leaves every function finished
\* (DONE, or read by get_early_results and removed) or leaves prime_it at the
\* caller's limit prime_counter
C34_DoneOnlyWhenFinishedOrLimit ==
  [][(~done /\ done') =>
       \/ Finished' = Functions
       \/ prime_it' >= prime_counter]_vars

\* the main loop has ended at the limit with a function left unfinished
C34_Witness ==
  /\ done
  /\ spc = "finished"
  /\ prime_it = prime_counter
  /\ Finished # Functions

\* ------------------------------------------------- get_job on any backlog
\* the longest backlog of requested_probes and the largest pool
MaxBacklog == 130
MaxThreads == 2
\* the maximal bunch sizes the constructor lets pass
BunchSizes == {1, 2, 4, 8, 16, 32, 64, 128}

\* a Reconstructor of thr_n threads and maximal bunch size bunch_size whose
\* queue_probes has left L probes of zi_order (1, ..., 1) in requested_probes,
\* one get_job task for each
InitBunch ==
  /\ thr_n \in 1..MaxThreads /\ bunch_size \in BunchSizes /\ deg = 1 /\ scan = FALSE
  /\ first = TRUE /\ counter = 0 /\ found_shift = FALSE
  /\ current_shift = [i \in 1..NVars |-> 0]
  /\ threads_idle = [w \in 1..thr_n |-> TRUE]
  /\ wk = [w \in 1..thr_n |-> IdleWk]
  /\ spc = "first_get_probe"
  /\ prime_it = 0 /\ done = FALSE /\ new_prime = FALSE
  /\ items = 0 /\ items_done = 0 /\ items_new_prime = 0
  /\ feed_jobs = 0 /\ interpolate_jobs = 0
  /\ balance_of_ones = 0 /\ probes_for_next_prime = 0
  /\ \E L \in 0..MaxBacklog :
       /\ requested_probes = [j \in 1..L |-> [ind |-> L - j, prime |-> 0, anchor |-> 0]]
       /\ tasks = [j \in 1..L |-> [kind |-> "get_job", f |-> 0, indices |-> <<>>, prime |-> 0]]
       /\ index_map = [i \in 0..(L - 1) |-> [t |-> i + 1, zi_order |-> Ones]]
       /\ probes_queued = L /\ ind = L
       /\ started_probes = IF L = 0 THEN EmptyMap ELSE (Ones :> L)
       /\ chosen_t = [z \in ZiOrders |-> IF z = Ones THEN 1..L ELSE {}]
       /\ used_t = [z \in ZiOrders |-> IF z = Ones THEN 1..L ELSE {}]
       /\ issued_t = [z \in ZiOrders |-> IF z = Ones THEN 1..L ELSE {}]
  /\ computed_probes = <<>>
  /\ status = [f \in Functions |-> "RECONSTRUCTING"]
  /\ rec = [f \in Functions |-> NewRatReconst]
  /\ ff_prime = 0 /\ bb_prime = 0 /\ anchor_prime = 0
  /\ prime_changed_calls = 1 /\ set_new_prime_calls = 1
  /\ repeats = 0 /\ reused_now = FALSE
  /\ acc = {}
  /\ pool = NewPool
  /\ aborted = FALSE
  /\ uni = NewRatReconst1(CHOOSE bb \in BlackBoxes : bb.num = 3)
  /\ resume = NoResume
  /\ lk = NoLocks
  /\ multi = NewMulti

\* each worker takes one get_job task and its bunch, and is left computing
NextBunch ==
  \E w \in Threads :
    \/ WorkerTake(w)
    \/ GetJob(w)

SpecBunch == InitBunch /\ [][NextBunch]_vars

\* the bunch a worker has taken in this step, if it has taken one
TakesBunch(w) == wk[w].pc = "get_job" /\ wk'[w].pc = "compute_probe"

\* C35: the bunch a worker takes in get_job has 1, 2, 4, ..., 128 probes, at
\* most the maximal bunch size and at most as many as requested_probes holds;
\* they are the probes at its front, and the others stay
C35_BunchFits ==
  [][\A w \in Threads :
       TakesBunch(w) =>
         LET N == Len(wk'[w].indices)
         IN /\ N \in {1, 2, 4, 8, 16, 32, 64, 128}
            /\ N <= bunch_size
            /\ N <= Len(requested_probes)
            /\ Len(requested_probes') = Len(requested_probes) - N
            /\ \A j \in 1..N : wk'[w].indices[j] = requested_probes[j].ind]_vars

\* a worker has taken a bunch of 128 probes
C35_Witness ==
  \E w \in Threads :
    /\ wk[w].pc = "compute_probe"
    /\ Len(wk[w].indices) = 128
    /\ bunch_size = 128

\* the powers of two
PowersOfTwo == {2 ^ k : k \in 0..8}
\* the largest power of two that divides x, and the largest one not above x
LargestDividing(x) == CHOOSE p \in PowersOfTwo : x % p = 0 /\ x % (2 * p) # 0
LargestBelow(x) == CHOOSE p \in PowersOfTwo : p <= x /\ x < 2 * p

\* C36 as stated: with more than one probe allowed in a bunch and at least
\* one probe for every thread, the bunch has as many probes as the largest
\* power of two that divides backlog / thr_n, or the maximal bunch size if
\* that is less
C36_LargestPowerDividing ==
  [][\A w \in Threads :
       (TakesBunch(w) /\ bunch_size > 1 /\ Len(requested_probes) >= thr_n) =>
          Len(wk'[w].indices) =
            Min2(bunch_size, LargestDividing(Len(requested_probes) \div thr_n))]_vars

\* C36: with q the backlog divided by thr_n (rounded down) and p the largest
\* power of two not above q, the bunch has p probes, or 2 * p when 2 * p is
\* less than the backlog and p * thr_n is not the backlog, or the maximal
\* bunch size if that is less; it has one probe when q = 0 or when the maximal
\* bunch size is 1
C36_FloorPowerDoubled ==
  [][\A w \in Threads :
       TakesBunch(w) =>
         LET backlog == Len(requested_probes)
             q == backlog \div thr_n
             p == LargestBelow(q)
         IN Len(wk'[w].indices) =
              IF bunch_size = 1 \/ q = 0 THEN 1
              ELSE IF 2 * p < backlog /\ p * thr_n # backlog
                   THEN Min2(bunch_size, 2 * p)
                   ELSE Min2(bunch_size, p)]_vars

\* five probes for two threads: the worker has taken four of them, twice the
\* largest power of two not above 5 / 2
C36_Witness ==
  \E w \in Threads :
    /\ thr_n = 2
    /\ wk[w].pc = "compute_probe"
    /\ Len(wk[w].indices) = 4
    /\ Len(requested_probes) = 1
    /\ \A v \in Threads \ {w} : wk[v].pc = "idle"

\* the probe at position p of the deque rp has gone to the front (every probe
\* before it was queued later) or to the back (every probe behind it was
\* queued later)
AtFront(rp, p) == \A r \in 1..(p - 1) : rp[r].ind > rp[p].ind
AtBack(rp, p) == \A r \in (p + 1)..Len(rp) : rp[r].ind > rp[p].ind
\* the positions in requested_probes' of the probes that the step has queued
QueuedNow ==
  {p \in DOMAIN requested_probes' : requested_probes'[p].ind \in ind..(ind' - 1)}

C37_WitnessFront ==
  /\ prime_it = 0
  /\ Len(requested_probes) >= 2
  /\ index_map[requested_probes[1].ind].zi_order = Ones
  /\ requested_probes[1].ind > requested_probes[2].ind

\* ------------------------------------------------------- the end of the scan
\* a run in which a step that can be taken is not put off for ever: the
\* operating system runs a thread that is ready, and a task in the deque is
\* taken by a thread that waits for one
\* the Reconstructor constructed with the shift scan switched on
InitScan == Init /\ scan
SpecScan == InitScan /\ [][Next]_vars /\ WF_vars(Next)

\* the candidates of the scan and the place of s in the order they are tried
\* in: fewer ones first, then as std::next_permutation orders them
Candidates == [1..NVars -> {0, 1}]
Rank(s) ==
  Cardinality({q \in Candidates :
                 \/ NumOnes(q) < NumOnes(s)
                 \/ NumOnes(q) = NumOnes(s) /\ BinVal(q) < BinVal(s)})
AllOnes == [i \in 1..NVars |-> 1]

\* the shift that scan_for_shift sets behind its loop
selected_shift == IF found_shift THEN current_shift ELSE AllOnes

\* C38: scan_for_shift comes to an end.  It tries the candidates one by one in
\* the order of Rank, goes to the next one only when a function has refused
\* the one before, and leaves the loop at once when every function has
\* accepted a candidate, which is then the shift it sets; when all the
\* candidates have been refused, (1,...,1) last of all, it sets (1,...,1)
C38_FirstAcceptedWins ==
  /\ <>(~scan)
  /\ [][/\ current_shift' # current_shift =>
             /\ spc = "scan_loop" /\ ~found_shift /\ scan'
             /\ Rank(current_shift') = Rank(current_shift) + 1
             /\ counter = Rank(current_shift')
        /\ (spc = "scan_loop" /\ found_shift) => ~scan'
        /\ (scan /\ ~scan') =>
             /\ spc = "scan_loop" /\ ~first
             /\ found_shift =>
                  /\ selected_shift = current_shift
                  /\ counter = Rank(current_shift) + 1
             /\ ~found_shift =>
                  /\ counter = Cardinality(Candidates)
                  /\ current_shift = AllOnes
                  /\ selected_shift = AllOnes
        /\ found_shift' # found_shift => spc = "scan_check"]_vars

\* the scan has ended with its second candidate, the first one was refused
C38_Witness ==
  /\ ~scan /\ ~first /\ found_shift
  /\ counter = 2
  /\ current_shift = [i \in 1..NVars |-> IF i = NVars THEN 1 ELSE 0]

\* the scan has ended with every candidate refused
C38_WitnessFallback ==
  /\ ~scan /\ ~first /\ ~found_shift
  /\ counter = Cardinality(Candidates)

\* ------------------------------------------------------- ThreadPool::wait
\* the calls of wait() of one client
MaxWaits == 3

\* wait() called: under the pool's mutex, returns false when all threads are
\* idle, and waits on condition_wait otherwise.  done_at_wait are the tasks
\* that have returned by then
PoolWait ==
  /\ PoolUp /\ pool.client = "using" /\ pool.waits < MaxWaits
  /\ pool' = IF all_threads_idle
             THEN [pool EXCEPT !.waits = @ + 1, !.wait_ret = "false"]
             ELSE [pool EXCEPT !.waits = @ + 1, !.wait_ret = "none",
                               !.client = "wait_blocked",
                               !.done_at_wait = pool.executed]
  /\ UNCHANGED <<lk, multi, uni, aborted, runVars, tasks, threads_idle, wk>>

\* wait() woken and returning true.  condition_wait.wait(lock) has no
\* predicate: it returns when a thread at the head of its loop has notified
\* it, and it may return with no notification at all
PoolWaitWoken ==
  /\ PoolUp /\ pool.client = "wait_blocked"
  /\ pool' = [pool EXCEPT !.client = "using", !.wait_ret = "true"]
  /\ UNCHANGED <<lk, multi, uni, aborted, runVars, tasks, threads_idle, wk>>

NextWait ==
  \/ PoolRunTask
  \/ PoolRunPriorityTask
  \/ PoolWait
  \/ PoolWaitWoken
  \/ \E w \in Threads : PoolTake(w)
  \/ \E w \in Threads : PoolJob(w)
  \/ \E w \in Threads : PoolSpawningJob(w)
  \/ \E w \in Threads : PoolThrowingJob(w)

SpecWait == InitPool /\ [][NextWait]_vars

\* a thread of the pool is running a task
Executing(w) == wk[w].pc # "idle"
WaitReturnsFalse == pool'.waits = pool.waits + 1 /\ pool'.wait_ret = "false"
WaitReturnsTrue == pool.client = "wait_blocked" /\ pool'.client = "using"

\* C39 as stated: wait() returns false only if all threads are idle, and it
\* returns true only when a thread has finished a task since the call
C39_TrueAfterTaskFinished ==
  [][/\ WaitReturnsFalse => \A w \in Threads : threads_idle[w] /\ ~Executing(w)
     /\ WaitReturnsTrue => pool.executed # pool.done_at_wait]_vars

\* C39: wait() returns false only if all threads are idle, so that no task is
\* executing when while (tp.wait()); ends; otherwise it waits on
\* condition_wait and returns true when it is woken, which happens only after
\* it has found a thread that was not idle
C39_FalseOnlyWhenAllIdle ==
  [][/\ WaitReturnsFalse =>
          /\ \A w \in Threads : threads_idle[w] /\ ~Executing(w)
          /\ pool'.client = "using"
     /\ (pool'.waits = pool.waits + 1 /\ \E w \in Threads : Executing(w)) =>
          pool'.client = "wait_blocked" /\ pool'.wait_ret = "none"
     /\ WaitReturnsTrue => pool'.wait_ret = "true"
     /\ (pool'.wait_ret = "true" /\ pool.wait_ret # "true") =>
          pool.client = "wait_blocked"]_vars

\* wait() has returned true and then false, with tasks executed in between
C39_Witness ==
  /\ pool.waits >= 2 /\ pool.wait_ret = "false" /\ pool.client = "using"
  /\ pool.done_at_wait # pool.executed
  /\ thr_n = 2

\* wait() has returned true although no task had finished since it was called
C39_WitnessEarly ==
  /\ pool.wait_ret = "true"
  /\ pool.done_at_wait = pool.executed
  /\ \E w \in Threads : Executing(w)

\* C40: interpolate() never calls back() and pop_back() on an empty list of
\* saved_ti: no list of saved_ti is empty between two rounds of its loop, and
\* the entry of the current zi_order is gone when a round ends
C40_NeverReadsEmptyList ==
  /\ ~multi.read_empty
  /\ \A z \in DOMAIN multi.saved_ti : multi.saved_ti[z] # <<>>
  /\ multi.curr_zi_order \notin DOMAIN multi.saved_ti

\* probes saved for a zi_order were taken with back() when it became the
\* current one, and a probe of another zi_order is saved again
C40_Witness ==
  /\ multi.read_saved
  /\ multi.prime_number = 0
  /\ multi.saved_ti # [x \in {} |-> <<>>]
====
